---- MODULE Spec2Model ----
(***************************************************************************)
(* Model of the dating site backend: the relational store (likes, blocks,  *)
(* visits, messages, notifications, profiles.fame_rating), the HTTP        *)
(* handlers of routes/users.js (view profile, like, unlike, block), the    *)
(* fame rating recompute of utils/fameRating.js and the socket.io handler  *)
(* (presence map userSockets, send_message, connect, disconnect).          *)
(*                                                                         *)
(* Every await of a handler is a step of its own, so that requests and     *)
(* socket handlers interleave the way the node event loop and the          *)
(* connection pool let them.                                               *)
(***************************************************************************)
EXTENDS Integers, Sequences, FiniteSets, Bags, TLC

(***************************************************************************)
(* Bounds of the model                                                     *)
(***************************************************************************)
NumUsers == 4        \* identities of the social-graph specifications
NumPeers == 2        \* identities of the specifications with concurrent handlers
MaxReqs == 3         \* HTTP requests issued in one behaviour
MaxInFlight == 2     \* HTTP requests in flight at the same time
MaxSockets == 2      \* socket.io connections opened in one behaviour
MaxSends == 1        \* send_message events received in one behaviour
MaxChatReqs == 1     \* HTTP requests issued in one behaviour next to socket traffic
MaxReads == 1        \* mark_messages_read events received in one behaviour
MaxTyping == 1       \* typing events delivered to one connection
MaxBurst == 2        \* send_message events one connection sends in a row

(***************************************************************************)
(* Program constants: the weights of the fame rating formula               *)
(***************************************************************************)
LikeWeight == 3
VisitWeight == 1
DislikeWeight == 2

Users == 1..NumUsers
Peers == 1..NumPeers
ReqIds == 1..MaxInFlight
SeqReqIds == {1}
SocketIds == 1..MaxSockets
SendIds == 1..MaxSends
ReadIds == 1..MaxReads
BurstIds == 1..MaxBurst
None == 0            \* undefined: no map entry, no receiverId, no row

VARIABLES
  likes,          \* table likes: set of <<liker_id, liked_id>> (primary key)
  blocks,         \* table blocks: set of <<blocker_id, blocked_id>>
  visits,         \* table visits: bag of <<visitor_id, visited_id>> rows
  messages,       \* table messages: sequence of rows, index = serial id
  notifications,  \* table notifications: bag of rows
  fame_rating,    \* profiles.fame_rating per user
  images,         \* users with an image row is_profile_picture = true
  reqs,           \* HTTP requests in flight: locals and position of each
  nreq,           \* number of HTTP requests issued so far
  unliked,        \* history: <<liker, liked>> pairs deleted by an unlike
  userSockets,    \* the Map userSockets: userId -> socket id (None = absent)
  sockets,        \* per socket id: state and socket.userId
  inbox,          \* per socket id: the events delivered to its client
  sends,          \* send_message handler invocations: locals and position
  bcasts,         \* presence broadcasts whose match query is in flight
  reads           \* mark_messages_read handler invocations: locals and position

storeVars == <<likes, blocks, visits, messages, notifications, fame_rating, images>>
httpVars == <<reqs, nreq, unliked>>
sockVars == <<userSockets, sockets, inbox, sends, bcasts, reads>>
vars == <<likes, blocks, visits, messages, notifications, fame_rating, images,
          reqs, nreq, unliked, userSockets, sockets, inbox, sends, bcasts, reads>>

(***************************************************************************)
(* Rows and queries of the store                                           *)
(***************************************************************************)
\* a notifications row; act is history: the send_message invocation that
\* inserted it, None for the rows of the HTTP handlers
NotificationRow(to, type, from, act) ==
  [user_id |-> to, type |-> type, from_user_id |-> from, act |-> act]

Notification(to, type, from) == NotificationRow(to, type, from, None)

\* a match query that forgets the EXISTS on the reverse edge
IsMutualMatch_oneway(a, b) == <<a, b>> \in likes

\* the two EXISTS-joined like rows of the match queries
IsMutualMatch(a, b) == <<a, b>> \in likes /\ <<b, a>> \in likes

\* SELECT 1 FROM blocks WHERE (blocker = a AND blocked = b) OR (blocker = b AND blocked = a)
IsBlocked(a, b) == <<a, b>> \in blocks \/ <<b, a>> \in blocks

NullRow == <<None, None>>

\* rows of likes with liked_id = u
LikeRows(u) == {l \in likes : l[2] = u}

\* rows of visits with visited_id = u, one element <<visitor, k>> per row
VisitRows(u) ==
  {vk \in Users \X (1..MaxReqs + 1) : vk[2] <= CopiesIn(<<vk[1], u>>, visits)}

\* FROM profiles p LEFT JOIN likes l ON l.liked_id = u LEFT JOIN visits v ON v.visited_id = u
StatsJoin(u) ==
  LET ls == IF LikeRows(u) = {} THEN {NullRow} ELSE LikeRows(u)
      vs == IF VisitRows(u) = {} THEN {NullRow} ELSE VisitRows(u)
  IN  ls \X vs

\* COUNT(DISTINCT l.liker_id)
total_likes(u) == Cardinality({j[1][1] : j \in {k \in StatsJoin(u) : k[1] # NullRow}})

\* COUNT(v.visitor_id), as it would be without DISTINCT: one per joined row
total_visits_nodistinct(u) == Cardinality({k \in StatsJoin(u) : k[2] # NullRow})

\* COUNT(DISTINCT v.visitor_id)
total_visits(u) == Cardinality({j[2][1] : j \in {k \in StatsJoin(u) : k[2] # NullRow}})

\* SELECT COUNT(*) FROM likes l2 WHERE l2.liked_id = u AND NOT EXISTS
\*   (SELECT 1 FROM likes l3 WHERE l3.liker_id = l2.liker_id AND l3.liked_id = u)
total_dislikes(u) ==
  Cardinality({l2 \in likes : /\ l2[2] = u
                              /\ ~ \E l3 \in likes : l3[1] = l2[1] /\ l3[2] = u})

\* SELECT (total_likes * 3) + (total_visits * 1) - (total_dislikes * 2)
FameRating(u) ==
  (total_likes(u) * LikeWeight) + (total_visits(u) * VisitWeight)
    - (total_dislikes(u) * DislikeWeight)

\* updateFameRating(userId): UPDATE profiles SET fame_rating = ... WHERE user_id = u
updateFameRating(u) == [fame_rating EXCEPT ![u] = FameRating(u)]

(***************************************************************************)
(* HTTP requests.  A request record holds the handler's locals:            *)
(*   op, pc      the route and the position in it                          *)
(*   userId, id  req.userId and the :id parameter                          *)
(*   isMatch     isMatch of like, wasMatch of unlike                       *)
(*   rows        like rows written by the open transaction                 *)
(*   status      HTTP status of the response, None while in flight         *)
(*   result      ids of the message rows a history read selected           *)
(*   gFwd, gRev  history: edges userId->id and id->userId as they were     *)
(*               when the transaction read them                            *)
(*   gRevoked    history: how the pair's chat had been revoked when the    *)
(*               request arrived                                           *)
(*   gPic, gBlk  history of a like: the acting user had a profile picture  *)
(*               when the picture check ran, a Block edge joined the pair  *)
(*               when the block check ran (gBlk also for a profile view)   *)
(*   gReach      history of a like: <<user, socket id>> for every user a   *)
(*               notification row was committed for that had a userSockets *)
(*               entry at the commit                                       *)
(*   gWrote      history of a like or unlike: the tables its committed      *)
(*               transaction changed                                       *)
(***************************************************************************)
IdleReq == [op |-> "none", pc |-> "idle", userId |-> None, id |-> None,
            isMatch |-> FALSE, rows |-> {}, status |-> None, result |-> {},
            gFwd |-> FALSE, gRev |-> FALSE, gRevoked |-> {},
            gPic |-> FALSE, gBlk |-> FALSE, gReach |-> {}, gWrote |-> {}]

NewReq(op, a, b) == [IdleReq EXCEPT !.op = op, !.userId = a, !.id = b]

Respond(req, code) == [req EXCEPT !.pc = "done", !.status = code]

Free(r) == reqs[r].pc \in {"idle", "done"} /\ nreq < MaxReqs

\* history: a Block between a and b has completed ("block"), an Unlike that
\* dissolved their match has completed and its request record is still held
\* ("unlike")
Revoked(a, b) ==
  (IF <<a, b>> \in blocks \/ <<b, a>> \in blocks THEN {"block"} ELSE {})
  \cup
  (IF \E r \in ReqIds :
        /\ reqs[r].op = "unlike" /\ reqs[r].pc = "done" /\ reqs[r].status = 200
        /\ reqs[r].gFwd /\ reqs[r].gRev
        /\ {reqs[r].userId, reqs[r].id} = {a, b}
     THEN {"unlike"} ELSE {})

\* POST /:id/like up to the profile picture check
LikeStart(r, a, b) ==
  /\ Free(r)
  /\ nreq' = nreq + 1
  /\ reqs' = [reqs EXCEPT ![r] =
       LET q == [NewReq("like", a, b) EXCEPT !.gPic = (a \in images)]
       IN IF b = a THEN Respond(q, 400)
          ELSE IF a \notin images THEN Respond(q, 400)
          ELSE [q EXCEPT !.pc = "blockCheck"]]
  /\ UNCHANGED <<storeVars, unliked, sockVars>>

\* POST /api/profile/images with isProfilePicture = 'true': the user's other
\* images are unset and the new row is the profile picture
UploadProfilePicture(u) ==
  /\ images' = images \cup {u}
  /\ UNCHANGED <<likes, blocks, visits, messages, notifications, fame_rating,
                 httpVars, sockVars>>

\* DELETE /api/profile/images/:imageId of the row that is the profile picture
DeleteProfilePicture(u) ==
  /\ u \in images
  /\ images' = images \ {u}
  /\ UNCHANGED <<likes, blocks, visits, messages, notifications, fame_rating,
                 httpVars, sockVars>>

\* a block check that only looks for a block issued by the acting user
LikeBlockCheck_blockeronly(r) ==
  /\ reqs[r].op = "like" /\ reqs[r].pc = "blockCheck"
  /\ reqs' = [reqs EXCEPT ![r] =
       LET q == [reqs[r] EXCEPT !.gBlk = (<<reqs[r].userId, reqs[r].id>> \in blocks
                                          \/ <<reqs[r].id, reqs[r].userId>> \in blocks)]
       IN IF <<reqs[r].userId, reqs[r].id>> \in blocks THEN Respond(q, 403)
          ELSE [q EXCEPT !.pc = "txn"]]
  /\ UNCHANGED <<storeVars, nreq, unliked, sockVars>>

\* POST /:id/like: the block check
LikeBlockCheck(r) ==
  /\ reqs[r].op = "like" /\ reqs[r].pc = "blockCheck"
  /\ reqs' = [reqs EXCEPT ![r] =
       LET q == [reqs[r] EXCEPT !.gBlk = (<<reqs[r].userId, reqs[r].id>> \in blocks
                                          \/ <<reqs[r].id, reqs[r].userId>> \in blocks)]
       IN IF IsBlocked(reqs[r].userId, reqs[r].id) THEN Respond(q, 403)
          ELSE [q EXCEPT !.pc = "txn"]]
  /\ UNCHANGED <<storeVars, nreq, unliked, sockVars>>

\* POST /:id/like: BEGIN, INSERT ... ON CONFLICT DO NOTHING, reverse-edge check
LikeTxn(r) ==
  LET a == reqs[r].userId
      b == reqs[r].id
  IN
  /\ reqs[r].op = "like" /\ reqs[r].pc = "txn"
  /\ reqs' = [reqs EXCEPT ![r] =
       [reqs[r] EXCEPT !.pc = "commit",
                       !.rows = IF <<a, b>> \in likes THEN {} ELSE {<<a, b>>},
                       !.isMatch = (<<b, a>> \in likes),
                       !.gFwd = (<<a, b>> \in likes),
                       !.gRev = (<<b, a>> \in likes)]]
  /\ UNCHANGED <<storeVars, nreq, unliked, sockVars>>

\* a match insert that has lost its second VALUES tuple
LikeNotifications_onematch(a, b, isMatch) ==
  IF isMatch
    THEN SetToBag({Notification(a, "match", b)})
    ELSE SetToBag({Notification(b, "like", a)})

\* a like insert with user_id and from_user_id swapped
LikeNotifications_swapped(a, b, isMatch) ==
  IF isMatch
    THEN SetToBag({Notification(a, "match", b), Notification(b, "match", a)})
    ELSE SetToBag({Notification(a, "like", b)})

\* the notification rows the like transaction inserts
LikeNotifications(a, b, isMatch) ==
  IF isMatch
    THEN SetToBag({Notification(a, "match", b), Notification(b, "match", a)})
    ELSE SetToBag({Notification(b, "like", a)})

\* a commit that looks for the reverse edge once more before it writes the
\* notifications
LikeCommit_rechecks(r) ==
  LET a == reqs[r].userId
      b == reqs[r].id
  IN
  /\ reqs[r].op = "like" /\ reqs[r].pc = "commit"
  /\ likes' = likes \cup reqs[r].rows
  /\ notifications' = notifications (+) LikeNotifications(a, b, <<b, a>> \in likes)
  /\ reqs' = [reqs EXCEPT ![r] = [reqs[r] EXCEPT !.pc = "fame"]]
  /\ UNCHANGED <<blocks, visits, messages, fame_rating, images, nreq, unliked, sockVars>>

\* a like that writes no notification when its INSERT met a conflict
LikeCommit_quietduplicate(r) ==
  LET a == reqs[r].userId
      b == reqs[r].id
  IN
  /\ reqs[r].op = "like" /\ reqs[r].pc = "commit"
  /\ likes' = likes \cup reqs[r].rows
  /\ notifications' = IF reqs[r].gFwd THEN notifications
                      ELSE notifications (+) LikeNotifications(a, b, reqs[r].isMatch)
  /\ reqs' = [reqs EXCEPT ![r] = [reqs[r] EXCEPT !.pc = "fame"]]
  /\ UNCHANGED <<blocks, visits, messages, fame_rating, images, nreq, unliked, sockVars>>

\* POST /:id/like: COMMIT
LikeCommit(r) ==
  LET a == reqs[r].userId
      b == reqs[r].id
  IN
  /\ reqs[r].op = "like" /\ reqs[r].pc = "commit"
  /\ likes' = likes \cup reqs[r].rows
  /\ notifications' = notifications (+) LikeNotifications(a, b, reqs[r].isMatch)
  /\ reqs' = [reqs EXCEPT ![r] =
       [reqs[r] EXCEPT !.pc = "fame",
                       !.gReach = {<<x, userSockets[x]>> :
                                     x \in {y \in (IF reqs[r].isMatch THEN {a, b} ELSE {b}) :
                                              userSockets[y] # None}},
                       !.gWrote = (IF likes' # likes THEN {"likes"} ELSE {})
                                    \cup (IF notifications' # notifications
                                            THEN {"notifications"} ELSE {})]]
  /\ UNCHANGED <<blocks, visits, messages, fame_rating, images, nreq, unliked, sockVars>>

\* a like that answers without awaiting updateFameRating
LikeFame_norecompute(r) ==
  /\ reqs[r].op = "like" /\ reqs[r].pc = "fame"
  /\ reqs' = [reqs EXCEPT ![r] = Respond(reqs[r], 200)]
  /\ UNCHANGED <<storeVars, nreq, unliked, sockVars>>

\* POST /:id/like: await updateFameRating(likedId), then res.json
LikeFame(r) ==
  /\ reqs[r].op = "like" /\ reqs[r].pc = "fame"
  /\ fame_rating' = updateFameRating(reqs[r].id)
  /\ reqs' = [reqs EXCEPT ![r] = Respond(reqs[r], 200)]
  /\ UNCHANGED <<likes, blocks, visits, messages, notifications, images, nreq,
                 unliked, sockVars>>

\* POST /:id/like: an awaited call rejects (a query before or inside the
\* transaction, COMMIT, or updateFameRating after it); the inner catch sends
\* ROLLBACK, which undoes the open transaction and does nothing once COMMIT
\* has run, and next(error) answers 500
LikeFail(r) ==
  /\ reqs[r].op = "like" /\ reqs[r].pc \in {"blockCheck", "txn", "commit", "fame"}
  /\ reqs' = [reqs EXCEPT ![r] = Respond(reqs[r], 500)]
  /\ UNCHANGED <<storeVars, nreq, unliked, sockVars>>

\* an unlike that does not test the rowCount of its DELETE
UnlikeTxn_norowcount(r, a, b) ==
  /\ Free(r)
  /\ nreq' = nreq + 1
  /\ reqs' = [reqs EXCEPT ![r] =
       [NewReq("unlike", a, b) EXCEPT
          !.isMatch = IsMutualMatch(a, b),
          !.gFwd = (<<a, b>> \in likes),
          !.gRev = (<<b, a>> \in likes),
          !.pc = "commit",
          !.rows = likes \cap {<<a, b>>}]]
  /\ UNCHANGED <<storeVars, unliked, sockVars>>

\* DELETE /:id/like: BEGIN, match check, DELETE, rowCount test
UnlikeTxn(r, a, b) ==
  /\ Free(r)
  /\ nreq' = nreq + 1
  /\ reqs' = [reqs EXCEPT ![r] =
       LET q == [NewReq("unlike", a, b) EXCEPT
                   !.isMatch = IsMutualMatch(a, b),
                   !.gFwd = (<<a, b>> \in likes),
                   !.gRev = (<<b, a>> \in likes)]
       IN IF <<a, b>> \notin likes THEN Respond(q, 404)
          ELSE [q EXCEPT !.pc = "commit", !.rows = {<<a, b>>}]]
  /\ UNCHANGED <<storeVars, unliked, sockVars>>

\* a DELETE FROM likes that removes the pair's edges in both directions
UnlikeCommit_bothedges(r) ==
  LET a == reqs[r].userId
      b == reqs[r].id
  IN
  /\ reqs[r].op = "unlike" /\ reqs[r].pc = "commit"
  /\ IF reqs[r].rows \subseteq likes
       THEN /\ likes' = likes \ {<<a, b>>, <<b, a>>}
            /\ notifications' = notifications (+) SetToBag({Notification(b, "unlike", a)})
            /\ unliked' = unliked \cup reqs[r].rows
            /\ reqs' = [reqs EXCEPT ![r] =
                 [reqs[r] EXCEPT !.pc = "fame", !.gWrote = {"likes", "notifications"}]]
       ELSE /\ reqs' = [reqs EXCEPT ![r] = Respond(reqs[r], 404)]
            /\ UNCHANGED <<likes, notifications, unliked>>
  /\ UNCHANGED <<blocks, visits, messages, fame_rating, images, nreq, sockVars>>

\* DELETE /:id/like: unlike notification and COMMIT.  The DELETE holds the
\* lock of the row it removes; when a concurrent transaction removed the row
\* first, the DELETE finds no row and the request ends with ROLLBACK and 404.
UnlikeCommit(r) ==
  LET a == reqs[r].userId
      b == reqs[r].id
  IN
  /\ reqs[r].op = "unlike" /\ reqs[r].pc = "commit"
  /\ IF reqs[r].rows \subseteq likes
       THEN /\ likes' = likes \ reqs[r].rows
            /\ notifications' = notifications (+) SetToBag({Notification(b, "unlike", a)})
            /\ unliked' = unliked \cup reqs[r].rows
            /\ reqs' = [reqs EXCEPT ![r] =
                 [reqs[r] EXCEPT !.pc = "fame", !.gWrote = {"likes", "notifications"}]]
       ELSE /\ reqs' = [reqs EXCEPT ![r] = Respond(reqs[r], 404)]
            /\ UNCHANGED <<likes, notifications, unliked>>
  /\ UNCHANGED <<blocks, visits, messages, fame_rating, images, nreq, sockVars>>

\* DELETE /:id/like: await updateFameRating(likedId), then res.json
UnlikeFame(r) ==
  /\ reqs[r].op = "unlike" /\ reqs[r].pc = "fame"
  /\ fame_rating' = updateFameRating(reqs[r].id)
  /\ reqs' = [reqs EXCEPT ![r] = Respond(reqs[r], 200)]
  /\ UNCHANGED <<likes, blocks, visits, messages, notifications, images, nreq,
                 unliked, sockVars>>

\* DELETE /:id/like: the notification insert, COMMIT or updateFameRating
\* rejects; ROLLBACK in the inner catch, next(error) answers 500
UnlikeFail(r) ==
  /\ reqs[r].op = "unlike" /\ reqs[r].pc \in {"commit", "fame"}
  /\ reqs' = [reqs EXCEPT ![r] = Respond(reqs[r], 500)]
  /\ UNCHANGED <<storeVars, nreq, unliked, sockVars>>

\* a profile view that records the visit without comparing id to req.userId
VisitStart_recordsself(r, a, b) ==
  /\ Free(r)
  /\ nreq' = nreq + 1
  /\ reqs' = [reqs EXCEPT ![r] =
       LET q == [NewReq("visit", a, b) EXCEPT
                   !.gBlk = (<<a, b>> \in blocks \/ <<b, a>> \in blocks)]
       IN IF IsBlocked(a, b) THEN Respond(q, 403)
          ELSE [q EXCEPT !.pc = "visit"]]
  /\ UNCHANGED <<storeVars, unliked, sockVars>>

\* GET /:id: block check and the profile, images and tags reads
VisitStart(r, a, b) ==
  /\ Free(r)
  /\ nreq' = nreq + 1
  /\ reqs' = [reqs EXCEPT ![r] =
       LET q == [NewReq("visit", a, b) EXCEPT
                   !.gBlk = (<<a, b>> \in blocks \/ <<b, a>> \in blocks)]
       IN IF IsBlocked(a, b) THEN Respond(q, 403)
          ELSE IF b # a THEN [q EXCEPT !.pc = "visit"]
          ELSE Respond(q, 200)]
  /\ UNCHANGED <<storeVars, unliked, sockVars>>

\* GET /:id: INSERT INTO visits
VisitInsert(r) ==
  /\ reqs[r].op = "visit" /\ reqs[r].pc = "visit"
  /\ visits' = visits (+) SetToBag({<<reqs[r].userId, reqs[r].id>>})
  /\ reqs' = [reqs EXCEPT ![r] = [reqs[r] EXCEPT !.pc = "notify"]]
  /\ UNCHANGED <<likes, blocks, messages, notifications, fame_rating, images, nreq,
                 unliked, sockVars>>

\* GET /:id: INSERT INTO notifications ... 'visit'
VisitNotify(r) ==
  /\ reqs[r].op = "visit" /\ reqs[r].pc = "notify"
  /\ notifications' = notifications
       (+) SetToBag({Notification(reqs[r].id, "visit", reqs[r].userId)})
  /\ reqs' = [reqs EXCEPT ![r] = [reqs[r] EXCEPT !.pc = "fame"]]
  /\ UNCHANGED <<likes, blocks, visits, messages, fame_rating, images, nreq,
                 unliked, sockVars>>

\* GET /:id: await updateFameRating(id), then res.json
VisitFame(r) ==
  /\ reqs[r].op = "visit" /\ reqs[r].pc = "fame"
  /\ fame_rating' = updateFameRating(reqs[r].id)
  /\ reqs' = [reqs EXCEPT ![r] = Respond(reqs[r], 200)]
  /\ UNCHANGED <<likes, blocks, visits, messages, notifications, images, nreq,
                 unliked, sockVars>>

\* GET /:id: the visit insert, the notification insert or updateFameRating
\* rejects; every statement ran on the pool in autocommit, so the statements
\* before the rejected one stay committed, and next(error) answers 500
VisitFail(r) ==
  /\ reqs[r].op = "visit" /\ reqs[r].pc \in {"visit", "notify", "fame"}
  /\ reqs' = [reqs EXCEPT ![r] = Respond(reqs[r], 500)]
  /\ UNCHANGED <<storeVars, nreq, unliked, sockVars>>

\* POST /:id/block: BEGIN, INSERT ... ON CONFLICT DO NOTHING, DELETE FROM likes
BlockTxn(r, a, b) ==
  /\ Free(r)
  /\ nreq' = nreq + 1
  /\ reqs' = [reqs EXCEPT ![r] =
       IF b = a THEN Respond(NewReq("block", a, b), 400)
       ELSE [NewReq("block", a, b) EXCEPT
               !.pc = "commit",
               !.rows = likes \cap {<<a, b>>, <<b, a>>},
               !.gFwd = (<<a, b>> \in likes),
               !.gRev = (<<b, a>> \in likes)]]
  /\ UNCHANGED <<storeVars, unliked, sockVars>>

\* a DELETE FROM likes that has lost its second disjunct
BlockCommit_keepsreverse(r) ==
  /\ reqs[r].op = "block" /\ reqs[r].pc = "commit"
  /\ blocks' = blocks \cup {<<reqs[r].userId, reqs[r].id>>}
  /\ likes' = likes \ (reqs[r].rows \cap {<<reqs[r].userId, reqs[r].id>>})
  /\ reqs' = [reqs EXCEPT ![r] = Respond(reqs[r], 200)]
  /\ UNCHANGED <<visits, messages, notifications, fame_rating, images, nreq,
                 unliked, sockVars>>

\* POST /:id/block: COMMIT, then res.json
BlockCommit(r) ==
  /\ reqs[r].op = "block" /\ reqs[r].pc = "commit"
  /\ blocks' = blocks \cup {<<reqs[r].userId, reqs[r].id>>}
  /\ likes' = likes \ reqs[r].rows
  /\ reqs' = [reqs EXCEPT ![r] = Respond(reqs[r], 200)]
  /\ UNCHANGED <<visits, messages, notifications, fame_rating, images, nreq,
                 unliked, sockVars>>

\* GET /api/chat/:userId/messages: the match query and the branch on its rows
HistoryStart(r, a, b) ==
  /\ Free(r)
  /\ nreq' = nreq + 1
  /\ reqs' = [reqs EXCEPT ![r] =
       LET q == [NewReq("history", a, b) EXCEPT
                   !.gFwd = (<<a, b>> \in likes),
                   !.gRev = (<<b, a>> \in likes),
                   !.gRevoked = Revoked(a, b)]
       IN IF ~ IsMutualMatch(a, b) THEN Respond(q, 403)
          ELSE [q EXCEPT !.pc = "blockCheck"]]
  /\ UNCHANGED <<storeVars, unliked, sockVars>>

\* GET /api/chat/:userId/messages: the block query and the branch on its rows
HistoryBlockCheck(r) ==
  /\ reqs[r].op = "history" /\ reqs[r].pc = "blockCheck"
  /\ reqs' = [reqs EXCEPT ![r] =
       IF IsBlocked(reqs[r].userId, reqs[r].id) THEN Respond(reqs[r], 403)
       ELSE [reqs[r] EXCEPT !.pc = "select"]]
  /\ UNCHANGED <<storeVars, nreq, unliked, sockVars>>

\* SELECT ... FROM messages WHERE (sender = a AND receiver = b) OR (sender = b AND receiver = a)
Conversation(a, b) ==
  {k \in DOMAIN messages :
     \/ messages[k].sender_id = a /\ messages[k].receiver_id = b
     \/ messages[k].sender_id = b /\ messages[k].receiver_id = a}

\* GET /api/chat/:userId/messages: the messages query
HistorySelect(r) ==
  /\ reqs[r].op = "history" /\ reqs[r].pc = "select"
  /\ reqs' = [reqs EXCEPT ![r] =
       [reqs[r] EXCEPT !.pc = "markRead",
                       !.result = Conversation(reqs[r].userId, reqs[r].id)]]
  /\ UNCHANGED <<storeVars, nreq, unliked, sockVars>>

\* an UPDATE that has lost its receiver_id condition
MarkRead_anyreceiver(from, to) ==
  [k \in DOMAIN messages |->
     IF messages[k].sender_id = from
       THEN [messages[k] EXCEPT !.is_read = TRUE]
       ELSE messages[k]]

\* UPDATE messages SET is_read = true WHERE sender_id = from AND receiver_id = to
\*   AND is_read = false
MarkRead(from, to) ==
  [k \in DOMAIN messages |->
     IF messages[k].sender_id = from /\ messages[k].receiver_id = to
       THEN [messages[k] EXCEPT !.is_read = TRUE]
       ELSE messages[k]]

\* an update that writes is_read = NOT is_read
HistoryMarkRead_toggles(r) ==
  /\ reqs[r].op = "history" /\ reqs[r].pc = "markRead"
  /\ messages' = [k \in DOMAIN messages |->
       IF messages[k].sender_id = reqs[r].id /\ messages[k].receiver_id = reqs[r].userId
         THEN [messages[k] EXCEPT !.is_read = ~ @]
         ELSE messages[k]]
  /\ reqs' = [reqs EXCEPT ![r] = Respond(reqs[r], 200)]
  /\ UNCHANGED <<likes, blocks, visits, notifications, fame_rating, images, nreq,
                 unliked, sockVars>>

\* GET /api/chat/:userId/messages: the is_read update, then res.json
HistoryMarkRead(r) ==
  /\ reqs[r].op = "history" /\ reqs[r].pc = "markRead"
  /\ messages' = MarkRead(reqs[r].id, reqs[r].userId)
  /\ reqs' = [reqs EXCEPT ![r] = Respond(reqs[r], 200)]
  /\ UNCHANGED <<likes, blocks, visits, notifications, fame_rating, images, nreq,
                 unliked, sockVars>>

(***************************************************************************)
(* socket.io handler.  A socket emits to a client only while it is         *)
(* connected: an emit to a closed socket, or to a room whose socket has    *)
(* left, is dropped.                                                       *)
(***************************************************************************)
Event(type, uid, msg, act, reason) ==
  [type |-> type, userId |-> uid, msg |-> msg, act |-> act, reason |-> reason]

\* socket.emit(...) and io.to(socketId).emit(...) on the inbox function box
Emit(box, s, ev) ==
  IF s # None /\ sockets[s].state = "open"
    THEN [box EXCEPT ![s] = Append(@, ev)]
    ELSE box

NextSocket(s) == sockets[s].state = "unused"

\* a middleware that rejects the connection but lets the connection handler
\* issue its match query
ConnectRejected_broadcasts(s) ==
  /\ NextSocket(s)
  /\ sockets' = [sockets EXCEPT ![s] = [state |-> "rejected", userId |-> None]]
  /\ bcasts' = bcasts \cup {[kind |-> "online", sock |-> s, userId |-> None]}
  /\ UNCHANGED <<storeVars, httpVars, userSockets, inbox, sends, reads>>

\* io.use middleware: a missing or invalid token rejects the connection
ConnectRejected(s) ==
  /\ NextSocket(s)
  /\ sockets' = [sockets EXCEPT ![s] = [state |-> "rejected", userId |-> None]]
  /\ UNCHANGED <<storeVars, httpVars, userSockets, inbox, sends, reads, bcasts>>

\* the match queries a connection can have in flight
BroadcastTasks == [kind : {"online", "offline"}, sock : SocketIds, userId : Users]

\* a connection handler that registers only when the identity has no entry
Connect_keepsfirst(s, u) ==
  /\ NextSocket(s)
  /\ sockets' = [sockets EXCEPT ![s] = [state |-> "open", userId |-> u]]
  /\ userSockets' = IF userSockets[u] = None
                      THEN [userSockets EXCEPT ![u] = s]
                      ELSE userSockets
  /\ bcasts' = bcasts \cup {[kind |-> "online", sock |-> s, userId |-> u]}
  /\ UNCHANGED <<storeVars, httpVars, inbox, sends, reads>>

\* io.use middleware with a valid token, then io.on('connection'):
\* userSockets.set(userId, socket.id) and the match query is issued
Connect(s, u) ==
  /\ NextSocket(s)
  /\ sockets' = [sockets EXCEPT ![s] = [state |-> "open", userId |-> u]]
  /\ userSockets' = [userSockets EXCEPT ![u] = s]
  /\ bcasts' = bcasts \cup {[kind |-> "online", sock |-> s, userId |-> u]}
  /\ UNCHANGED <<storeVars, httpVars, inbox, sends, reads>>

\* a match query that has lost its first EXISTS
MatchRows_likers(u) == {m \in Users : <<m, u>> \in likes}

\* SELECT u.id FROM users u WHERE EXISTS(like userId -> u) AND EXISTS(like u -> userId)
MatchRows(u) == {m \in Users : IsMutualMatch(u, m)}

\* result.rows.forEach: emit type to every matched user that has a map entry
Broadcast(box, type, u) ==
  [s \in SocketIds |->
     IF /\ sockets[s].state = "open"
        /\ \E m \in MatchRows(u) : userSockets[m] = s
       THEN Append(box[s], Event(type, u, None, None, "none"))
       ELSE box[s]]

\* the .then of the connect-time match query: user_online to the matches
OnlineBroadcast(bc) ==
  /\ bc \in bcasts /\ bc.kind = "online"
  /\ inbox' = Broadcast(inbox, "user_online", bc.userId)
  /\ bcasts' = bcasts \ {bc}
  /\ UNCHANGED <<storeVars, httpVars, userSockets, sockets, sends, reads>>

\* a disconnect handler that leaves the map entry in place
Disconnect_keepsentry(s) ==
  /\ sockets[s].state = "open"
  /\ sockets' = [sockets EXCEPT ![s].state = "closed"]
  /\ bcasts' = bcasts \cup {[kind |-> "offline", sock |-> s, userId |-> sockets[s].userId]}
  /\ UNCHANGED <<storeVars, httpVars, userSockets, inbox, sends, reads>>

\* socket.on('disconnect'): userSockets.delete(userId), match query issued
Disconnect(s) ==
  /\ sockets[s].state = "open"
  /\ sockets' = [sockets EXCEPT ![s].state = "closed"]
  /\ userSockets' = [userSockets EXCEPT ![sockets[s].userId] = None]
  /\ bcasts' = bcasts \cup {[kind |-> "offline", sock |-> s, userId |-> sockets[s].userId]}
  /\ UNCHANGED <<storeVars, httpVars, inbox, sends, reads>>

\* the .then of the disconnect-time match query: user_offline to the matches
OfflineBroadcast(bc) ==
  /\ bc \in bcasts /\ bc.kind = "offline"
  /\ inbox' = Broadcast(inbox, "user_offline", bc.userId)
  /\ bcasts' = bcasts \ {bc}
  /\ UNCHANGED <<storeVars, httpVars, userSockets, sockets, sends, reads>>

(***************************************************************************)
(* send_message.  Strings are sequences of characters.  A handler record   *)
(* holds the locals of one invocation:                                     *)
(*   pc, sock, userId, receiverId, content, receiverSocketId, msg          *)
(* and its history:                                                        *)
(*   gMatch    both Like edges existed when the match query ran            *)
(*   gNoBlock  no Block edge existed when the block query ran              *)
(*   failedAt  the query that threw, "none" if none did                    *)
(*   wrote     the rows the invocation has inserted                        *)
(*   gRevoked  how the pair's chat had been revoked when the event arrived *)
(*   gOpen     the sender's connection was open when the block query was   *)
(*             answered                                                    *)
(***************************************************************************)
RECURSIVE TrimStart(_)
TrimStart(str) ==
  IF str = <<>> THEN str
  ELSE IF Head(str) = " " THEN TrimStart(Tail(str)) ELSE str

RECURSIVE TrimEnd(_)
TrimEnd(str) ==
  IF str = <<>> THEN str
  ELSE IF str[Len(str)] = " " THEN TrimEnd(SubSeq(str, 1, Len(str) - 1)) ELSE str

\* String.prototype.trim
Trim(str) == TrimEnd(TrimStart(str))

NewSend(s, receiverId, content) ==
  [pc |-> "matchCheck", sock |-> s, userId |-> sockets[s].userId,
   receiverId |-> receiverId, content |-> content,
   receiverSocketId |-> None, msg |-> None,
   gMatch |-> FALSE, gNoBlock |-> FALSE, failedAt |-> "none", wrote |-> {},
   gOpen |-> FALSE,
   gRevoked |-> IF receiverId = None THEN {} ELSE Revoked(sockets[s].userId, receiverId)]

\* a validation that does not trim the content
InvalidMessageData_notrim(receiverId, content) ==
  receiverId = None \/ content = <<>>

\* !receiverId || !content || content.trim() === ''
InvalidMessageData(receiverId, content) ==
  receiverId = None \/ content = <<>> \/ Trim(content) = <<>>

\* socket.on('send_message') up to the first await
OnSendMessage(s, receiverId, content) ==
  LET i == Len(sends) + 1 IN
  /\ sockets[s].state = "open"
  /\ IF InvalidMessageData(receiverId, content)
       THEN /\ inbox' = Emit(inbox, s, Event("error", None, None, i, "invalid"))
            /\ sends' = Append(sends, [NewSend(s, receiverId, content) EXCEPT !.pc = "done"])
       ELSE /\ inbox' = inbox
            /\ sends' = Append(sends, NewSend(s, receiverId, content))
  /\ UNCHANGED <<storeVars, httpVars, userSockets, sockets, bcasts, reads>>

\* a send_message event is received, at most MaxSends in one behaviour
SendMessage(s, receiverId, content) ==
  Len(sends) < MaxSends /\ OnSendMessage(s, receiverId, content)

\* send_message: the match query and the branch on its rows
SendMatchCheck(i) ==
  LET t == sends[i]
      a == t.userId
      b == t.receiverId
  IN
  /\ i \in DOMAIN sends /\ t.pc = "matchCheck"
  /\ IF ~ IsMutualMatch(a, b)
       THEN /\ inbox' = Emit(inbox, t.sock, Event("error", None, None, i, "not_matched"))
            /\ sends' = [sends EXCEPT ![i].pc = "done",
                                      ![i].gMatch = (<<a, b>> \in likes /\ <<b, a>> \in likes)]
       ELSE /\ inbox' = inbox
            /\ sends' = [sends EXCEPT ![i].pc = "blockCheck",
                                      ![i].gMatch = (<<a, b>> \in likes /\ <<b, a>> \in likes)]
  /\ UNCHANGED <<storeVars, httpVars, userSockets, sockets, bcasts, reads>>

\* send_message: the block query and the branch on its rows
SendBlockCheck(i) ==
  LET t == sends[i]
      a == t.userId
      b == t.receiverId
  IN
  /\ i \in DOMAIN sends /\ t.pc = "blockCheck"
  /\ IF IsBlocked(a, b)
       THEN /\ inbox' = Emit(inbox, t.sock, Event("error", None, None, i, "blocked"))
            /\ sends' = [sends EXCEPT ![i].pc = "done",
                                      ![i].gOpen = (sockets[t.sock].state = "open"),
                                      ![i].gNoBlock = (<<a, b>> \notin blocks /\ <<b, a>> \notin blocks)]
       ELSE /\ inbox' = inbox
            /\ sends' = [sends EXCEPT ![i].pc = "insert",
                                      ![i].gOpen = (sockets[t.sock].state = "open"),
                                      ![i].gNoBlock = (<<a, b>> \notin blocks /\ <<b, a>> \notin blocks)]
  /\ UNCHANGED <<storeVars, httpVars, userSockets, sockets, bcasts, reads>>

\* a handler that gives up when its socket has disconnected
SendInsert_ifconnected(i) ==
  LET t == sends[i]
      id == Len(messages) + 1
      rs == userSockets[t.receiverId]
  IN
  /\ i \in DOMAIN sends /\ t.pc = "insert"
  /\ IF sockets[t.sock].state = "open"
       THEN /\ messages' = Append(messages,
                 [id |-> id, sender_id |-> t.userId, receiver_id |-> t.receiverId,
                  content |-> Trim(t.content), is_read |-> FALSE, act |-> i])
            /\ inbox' = Emit(Emit(inbox, t.sock, Event("message_sent", t.userId, id, i, "none")),
                             rs, Event("new_message", t.userId, id, i, "none"))
            /\ sends' = [sends EXCEPT ![i].pc = "notify", ![i].msg = id,
                                      ![i].receiverSocketId = rs,
                                      ![i].wrote = @ \cup {"message"}]
       ELSE /\ sends' = [sends EXCEPT ![i].pc = "done"]
            /\ UNCHANGED <<messages, inbox>>
  /\ UNCHANGED <<likes, blocks, visits, notifications, fame_rating, images,
                 httpVars, userSockets, sockets, bcasts, reads>>

\* send_message: INSERT INTO messages, message_sent to the sender, lookup of
\* the receiver in userSockets and new_message to it
SendInsert(i) ==
  LET t == sends[i]
      id == Len(messages) + 1
      rs == userSockets[t.receiverId]
  IN
  /\ i \in DOMAIN sends /\ t.pc = "insert"
  /\ messages' = Append(messages,
       [id |-> id, sender_id |-> t.userId, receiver_id |-> t.receiverId,
        content |-> Trim(t.content), is_read |-> FALSE, act |-> i])
  /\ inbox' = Emit(Emit(inbox, t.sock, Event("message_sent", t.userId, id, i, "none")),
                   rs, Event("new_message", t.userId, id, i, "none"))
  /\ sends' = [sends EXCEPT ![i].pc = "notify", ![i].msg = id,
                            ![i].receiverSocketId = rs,
                            ![i].wrote = @ \cup {"message"}]
  /\ UNCHANGED <<likes, blocks, visits, notifications, fame_rating, images,
                 httpVars, userSockets, sockets, bcasts, reads>>

\* send_message: INSERT INTO notifications ... 'message', then
\* new_notification to the receiver socket looked up before
SendNotify(i) ==
  LET t == sends[i] IN
  /\ i \in DOMAIN sends /\ t.pc = "notify"
  /\ notifications' = notifications
       (+) SetToBag({NotificationRow(t.receiverId, "message", t.userId, i)})
  /\ inbox' = Emit(inbox, t.receiverSocketId,
                   Event("new_notification", t.userId, None, i, "none"))
  /\ sends' = [sends EXCEPT ![i].pc = "done", ![i].wrote = @ \cup {"notification"}]
  /\ UNCHANGED <<likes, blocks, visits, messages, fame_rating, images,
                 httpVars, userSockets, sockets, bcasts, reads>>

\* a catch block that still inserts the message notification
SendFail_notifies(i) ==
  LET t == sends[i] IN
  /\ i \in DOMAIN sends /\ t.pc \in {"matchCheck", "blockCheck", "insert", "notify"}
  /\ inbox' = Emit(inbox, t.sock, Event("error", None, None, i, "failed"))
  /\ notifications' = notifications
       (+) SetToBag({NotificationRow(t.receiverId, "message", t.userId, i)})
  /\ sends' = [sends EXCEPT ![i].pc = "done", ![i].failedAt = t.pc]
  /\ UNCHANGED <<likes, blocks, visits, messages, fame_rating, images,
                 httpVars, userSockets, sockets, bcasts, reads>>

\* send_message: a pool.query rejects, the catch emits 'Failed to send message'
SendFail(i) ==
  LET t == sends[i] IN
  /\ i \in DOMAIN sends /\ t.pc \in {"matchCheck", "blockCheck", "insert", "notify"}
  /\ inbox' = Emit(inbox, t.sock, Event("error", None, None, i, "failed"))
  /\ sends' = [sends EXCEPT ![i].pc = "done", ![i].failedAt = t.pc]
  /\ UNCHANGED <<storeVars, httpVars, userSockets, sockets, bcasts, reads>>

(***************************************************************************)
(* typing_start, typing_stop and mark_messages_read                        *)
(***************************************************************************)
\* userSockets.get(key): undefined for a key that is no user id
Lookup(key) == IF key \in Users THEN userSockets[key] ELSE None

TypingEvents(s) ==
  Cardinality({k \in DOMAIN inbox[s] :
                 inbox[s][k].type \in {"user_typing", "user_stopped_typing"}})

\* history: how a and b stand to each other in the store
Relation(a, b) ==
  IF IsBlocked(a, b) THEN "blocked"
  ELSE IF IsMutualMatch(a, b) THEN "matched" ELSE "unmatched"

\* a typing handler that signals matched users only
Typing_ifmatched(s, type, receiverId) ==
  LET receiverSocketId == Lookup(receiverId) IN
  /\ sockets[s].state = "open"
  /\ receiverSocketId # None => TypingEvents(receiverSocketId) < MaxTyping
  /\ inbox' = IF IsMutualMatch(sockets[s].userId, receiverId)
                THEN Emit(inbox, receiverSocketId,
                          Event(type, sockets[s].userId, None, None,
                                Relation(sockets[s].userId, receiverId)))
                ELSE inbox
  /\ UNCHANGED <<storeVars, httpVars, userSockets, sockets, sends, bcasts, reads>>

\* socket.on('typing_start') and socket.on('typing_stop'): type is the event
\* emitted, user_typing or user_stopped_typing.  The reason field of the
\* event is history: Relation of sender and receiver at the emit
Typing(s, type, receiverId) ==
  LET receiverSocketId == Lookup(receiverId) IN
  /\ sockets[s].state = "open"
  /\ receiverSocketId # None => TypingEvents(receiverSocketId) < MaxTyping
  /\ inbox' = Emit(inbox, receiverSocketId,
                   Event(type, sockets[s].userId, None, None,
                         Relation(sockets[s].userId, receiverId)))
  /\ UNCHANGED <<storeVars, httpVars, userSockets, sockets, sends, bcasts, reads>>

\* socket.on('mark_messages_read') up to the await of the UPDATE
MarkMessagesRead(s, senderId) ==
  /\ sockets[s].state = "open"
  /\ Len(reads) < MaxReads
  /\ reads' = Append(reads, [pc |-> "update", sock |-> s,
                             userId |-> sockets[s].userId, senderId |-> senderId])
  /\ UNCHANGED <<storeVars, httpVars, userSockets, sockets, inbox, sends, bcasts>>

\* mark_messages_read: the UPDATE, the lookup of the sender in userSockets
\* and messages_read to it
MarkReadUpdate(i) ==
  LET t == reads[i] IN
  /\ i \in DOMAIN reads /\ t.pc = "update"
  /\ messages' = MarkRead(t.senderId, t.userId)
  /\ inbox' = Emit(inbox, Lookup(t.senderId),
                   Event("messages_read", t.userId, None, None, "none"))
  /\ reads' = [reads EXCEPT ![i].pc = "done"]
  /\ UNCHANGED <<likes, blocks, visits, notifications, fame_rating, images,
                 httpVars, userSockets, sockets, sends, bcasts>>

\* a catch block that closes the connection
MarkReadFail_disconnects(i) ==
  LET t == reads[i] IN
  /\ i \in DOMAIN reads /\ t.pc = "update"
  /\ reads' = [reads EXCEPT ![i].pc = "failed"]
  /\ sockets' = [sockets EXCEPT ![t.sock].state = "closed"]
  /\ userSockets' = [userSockets EXCEPT ![t.userId] = None]
  /\ UNCHANGED <<storeVars, httpVars, inbox, sends, bcasts>>

\* mark_messages_read: the UPDATE rejects, the catch logs the error
MarkReadFail(i) ==
  LET t == reads[i] IN
  /\ i \in DOMAIN reads /\ t.pc = "update"
  /\ reads' = [reads EXCEPT ![i].pc = "failed"]
  /\ UNCHANGED <<storeVars, httpVars, userSockets, sockets, inbox, sends, bcasts>>

(***************************************************************************)
(* State after start-up: empty tables, every profile with fame_rating 0    *)
(* (column default), no connection.                                        *)
(***************************************************************************)
StartState(l, n, f) ==
  /\ likes = l
  /\ blocks = {}
  /\ visits = EmptyBag
  /\ messages = <<>>
  /\ notifications = n
  /\ fame_rating = f
  /\ images = Users
  /\ reqs = [r \in ReqIds |-> IdleReq]
  /\ nreq = 0
  /\ unliked = {}
  /\ userSockets = [u \in Users |-> None]
  /\ sockets = [s \in SocketIds |-> [state |-> "unused", userId |-> None]]
  /\ inbox = [s \in SocketIds |-> <<>>]
  /\ sends = <<>>
  /\ bcasts = {}
  /\ reads = <<>>

Init == StartState({}, EmptyBag, [u \in Users |-> 0])

\* the store after user 1 liked user 2 and user 2 liked user 1 back
MatchedLikes == {<<1, 2>>, <<2, 1>>}
MatchedNotifications ==
  SetToBag({Notification(2, "like", 1), Notification(2, "match", 1),
            Notification(1, "match", 2)})
MatchedFame == [u \in Users |-> IF u \in {1, 2} THEN LikeWeight ELSE 0]

\* the matched store is a state of the program: SpecSocial reaches it by the
\* two likes (with nreq = 2 and both requests answered)
MatchedStoreReached ==
  /\ likes = MatchedLikes /\ notifications = MatchedNotifications
  /\ fame_rating = MatchedFame /\ blocks = {} /\ visits = EmptyBag
  /\ unliked = {} /\ messages = <<>>
  /\ \A r \in ReqIds : reqs[r].pc \in {"idle", "done"}

\* the chat and presence specifications start with users 1 and 2 unmatched or
\* matched
InitChat ==
  \/ Init
  \/ StartState(MatchedLikes, MatchedNotifications, MatchedFame)

(***************************************************************************)
(* SpecFame: like, unlike and profile views among NumUsers identities,     *)
(* one request after the other.                                            *)
(***************************************************************************)
NextFame ==
  \/ \E r \in SeqReqIds, a \in Users, b \in Users : LikeStart(r, a, b)
  \/ \E r \in SeqReqIds : LikeBlockCheck(r)
  \/ \E r \in SeqReqIds : LikeTxn(r)
  \/ \E r \in SeqReqIds : LikeCommit(r)
  \/ \E r \in SeqReqIds : LikeFame(r)
  \/ \E r \in SeqReqIds, a \in Users, b \in Users : UnlikeTxn(r, a, b)
  \/ \E r \in SeqReqIds : UnlikeCommit(r)
  \/ \E r \in SeqReqIds : UnlikeFame(r)
  \/ \E r \in SeqReqIds, a \in Users, b \in Users : VisitStart(r, a, b)
  \/ \E r \in SeqReqIds : VisitInsert(r)
  \/ \E r \in SeqReqIds : VisitNotify(r)
  \/ \E r \in SeqReqIds : VisitFame(r)

SpecFame == Init /\ [][NextFame]_vars

(***************************************************************************)
(* SpecChat: connections and send_message among NumPeers identities, with  *)
(* like, unlike and block requests changing the edges underneath.  The     *)
(* presence broadcasts only append user_online and user_offline events to  *)
(* inboxes; they run in SpecPresence and stay pending here.                *)
(***************************************************************************)
\* in the chat specification socket s is a connection of user SocketOwner(s)
SocketOwner(s) == ((s - 1) % NumPeers) + 1

\* the send_message payloads { receiverId, content } tried
Payloads ==
  {<<None, <<" ", "h">> >>, <<2, <<>> >>, <<2, <<" ">> >>,
   <<1, <<" ", "h">> >>, <<2, <<" ", "h">> >>}

\* the requests and connections of the chat specification
ChatLike(r, a, b) == a # b /\ nreq < MaxChatReqs /\ LikeStart(r, a, b)
ChatUnlike(r, a, b) == a # b /\ nreq < MaxChatReqs /\ UnlikeTxn(r, a, b)
ChatBlock(r, a, b) == a # b /\ nreq < MaxChatReqs /\ BlockTxn(r, a, b)
ChatConnect(s) == Connect(s, SocketOwner(s))

NextChat ==
  \/ \E r \in SeqReqIds, a \in Peers, b \in Peers : ChatLike(r, a, b)
  \/ \E r \in SeqReqIds : LikeBlockCheck(r)
  \/ \E r \in SeqReqIds : LikeTxn(r)
  \/ \E r \in SeqReqIds : LikeCommit(r)
  \/ \E r \in SeqReqIds : LikeFame(r)
  \/ \E r \in SeqReqIds, a \in Peers, b \in Peers : ChatUnlike(r, a, b)
  \/ \E r \in SeqReqIds : UnlikeCommit(r)
  \/ \E r \in SeqReqIds : UnlikeFame(r)
  \/ \E r \in SeqReqIds, a \in Peers, b \in Peers : ChatBlock(r, a, b)
  \/ \E r \in SeqReqIds : BlockCommit(r)
  \/ \E s \in SocketIds : ChatConnect(s)
  \/ \E s \in SocketIds : Disconnect(s)
  \/ \E s \in SocketIds, p \in Payloads : SendMessage(s, p[1], p[2])
  \/ \E i \in SendIds : SendMatchCheck(i)
  \/ \E i \in SendIds : SendBlockCheck(i)
  \/ \E i \in SendIds : SendInsert(i)
  \/ \E i \in SendIds : SendNotify(i)
  \/ \E i \in SendIds : SendFail(i)

SpecChat == InitChat /\ [][NextChat]_vars

(***************************************************************************)
(* SpecSocial: like, unlike, block and profile views among NumPeers        *)
(* identities, up to MaxInFlight requests at a time.                       *)
(***************************************************************************)
NextSocial ==
  \/ \E r \in ReqIds, a \in Peers, b \in Peers : LikeStart(r, a, b)
  \/ \E r \in ReqIds : LikeBlockCheck(r)
  \/ \E r \in ReqIds : LikeTxn(r)
  \/ \E r \in ReqIds : LikeCommit(r)
  \/ \E r \in ReqIds : LikeFame(r)
  \/ \E r \in ReqIds, a \in Peers, b \in Peers : UnlikeTxn(r, a, b)
  \/ \E r \in ReqIds : UnlikeCommit(r)
  \/ \E r \in ReqIds : UnlikeFame(r)
  \/ \E r \in ReqIds, a \in Peers, b \in Peers : VisitStart(r, a, b)
  \/ \E r \in ReqIds : VisitInsert(r)
  \/ \E r \in ReqIds : VisitNotify(r)
  \/ \E r \in ReqIds : VisitFame(r)
  \/ \E r \in ReqIds, a \in Peers, b \in Peers : BlockTxn(r, a, b)
  \/ \E r \in ReqIds : BlockCommit(r)

SpecSocial == Init /\ [][NextSocial]_vars

(***************************************************************************)
(* SpecPresence: connections of NumPeers identities, several per identity, *)
(* their presence broadcasts, and requests changing the match set.         *)
(***************************************************************************)
\* socket ids are handed out in order
InOrder(s) == \A t \in 1..(s - 1) : sockets[t].state # "unused"

PresenceReject(s) == InOrder(s) /\ ConnectRejected(s)
PresenceConnect(s, u) == InOrder(s) /\ Connect(s, u)

NextPresence ==
  \/ \E s \in SocketIds : PresenceReject(s)
  \/ \E s \in SocketIds, u \in Peers : PresenceConnect(s, u)
  \/ \E bc \in BroadcastTasks : OnlineBroadcast(bc)
  \/ \E s \in SocketIds : Disconnect(s)
  \/ \E bc \in BroadcastTasks : OfflineBroadcast(bc)
  \/ \E r \in SeqReqIds, a \in Peers, b \in Peers : ChatUnlike(r, a, b)
  \/ \E r \in SeqReqIds : UnlikeCommit(r)
  \/ \E r \in SeqReqIds : UnlikeFame(r)
  \/ \E r \in SeqReqIds, a \in Peers, b \in Peers : ChatBlock(r, a, b)
  \/ \E r \in SeqReqIds : BlockCommit(r)

SpecPresence == InitChat /\ [][NextPresence]_vars

\* the match query of a disconnect is answered: its promise settles, and in
\* this specification it resolves
SpecPresenceFair ==
  SpecPresence /\ WF_vars(\E bc \in BroadcastTasks : OfflineBroadcast(bc))

(***************************************************************************)
(* SpecRevoke: like, unlike, block and chat-history requests of NumPeers   *)
(* identities, up to MaxInFlight at a time, while their connections send   *)
(* messages to each other.                                                 *)
(***************************************************************************)
RevokeLike(r, a, b) == a # b /\ LikeStart(r, a, b)
RevokeUnlike(r, a, b) == a # b /\ UnlikeTxn(r, a, b)
RevokeBlock(r, a, b) == a # b /\ BlockTxn(r, a, b)
RevokeHistory(r, a, b) == a # b /\ HistoryStart(r, a, b)
RevokeSend(s, b) == b # sockets[s].userId /\ SendMessage(s, b, <<"h">>)

NextRevoke ==
  \/ \E r \in ReqIds, a \in Peers, b \in Peers : RevokeLike(r, a, b)
  \/ \E r \in ReqIds : LikeBlockCheck(r)
  \/ \E r \in ReqIds : LikeTxn(r)
  \/ \E r \in ReqIds : LikeCommit(r)
  \/ \E r \in ReqIds : LikeFame(r)
  \/ \E r \in ReqIds, a \in Peers, b \in Peers : RevokeUnlike(r, a, b)
  \/ \E r \in ReqIds : UnlikeCommit(r)
  \/ \E r \in ReqIds : UnlikeFame(r)
  \/ \E r \in ReqIds, a \in Peers, b \in Peers : RevokeBlock(r, a, b)
  \/ \E r \in ReqIds : BlockCommit(r)
  \/ \E r \in ReqIds, a \in Peers, b \in Peers : RevokeHistory(r, a, b)
  \/ \E r \in ReqIds : HistoryBlockCheck(r)
  \/ \E r \in ReqIds : HistorySelect(r)
  \/ \E r \in ReqIds : HistoryMarkRead(r)
  \/ \E s \in SocketIds : ChatConnect(s)
  \/ \E s \in SocketIds, b \in Peers : RevokeSend(s, b)
  \/ \E i \in SendIds : SendMatchCheck(i)
  \/ \E i \in SendIds : SendBlockCheck(i)
  \/ \E i \in SendIds : SendInsert(i)
  \/ \E i \in SendIds : SendNotify(i)

SpecRevoke == InitChat /\ [][NextRevoke]_vars

(***************************************************************************)
(* SpecGate: connection attempts with and without a valid credential, and  *)
(* the events of the connections: send_message, typing_start, typing_stop, *)
(* mark_messages_read.                                                     *)
(***************************************************************************)
TypingTypes == {"user_typing", "user_stopped_typing"}

NextGate ==
  \/ \E s \in SocketIds : PresenceReject(s)
  \/ \E s \in SocketIds, u \in Peers : PresenceConnect(s, u)
  \/ \E bc \in BroadcastTasks : OnlineBroadcast(bc)
  \/ \E s \in SocketIds, b \in Peers : RevokeSend(s, b)
  \/ \E i \in SendIds : SendMatchCheck(i)
  \/ \E i \in SendIds : SendBlockCheck(i)
  \/ \E i \in SendIds : SendInsert(i)
  \/ \E i \in SendIds : SendNotify(i)
  \/ \E s \in SocketIds, t \in TypingTypes, b \in Peers : Typing(s, t, b)
  \/ \E s \in SocketIds, b \in Peers : MarkMessagesRead(s, b)
  \/ \E i \in ReadIds : MarkReadUpdate(i)

SpecGate == InitChat /\ [][NextGate]_vars

(***************************************************************************)
(* SpecLikeGate: likes and blocks among NumPeers identities, up to         *)
(* MaxInFlight at a time, while profile pictures are uploaded and deleted. *)
(***************************************************************************)
NextLikeGate ==
  \/ \E u \in Peers : UploadProfilePicture(u)
  \/ \E u \in Peers : DeleteProfilePicture(u)
  \/ \E r \in ReqIds, a \in Peers, b \in Peers : LikeStart(r, a, b)
  \/ \E r \in ReqIds : LikeBlockCheck(r)
  \/ \E r \in ReqIds : LikeTxn(r)
  \/ \E r \in ReqIds : LikeCommit(r)
  \/ \E r \in ReqIds : LikeFame(r)
  \/ \E r \in ReqIds, a \in Peers, b \in Peers : BlockTxn(r, a, b)
  \/ \E r \in ReqIds : BlockCommit(r)

SpecLikeGate == Init /\ [][NextLikeGate]_vars

(***************************************************************************)
(* SpecMessages: everything that touches the messages table: send_message, *)
(* mark_messages_read and the chat-history read of NumPeers identities,    *)
(* with a like, unlike or block request changing the edges underneath.     *)
(***************************************************************************)
MessagesHistory(r, a, b) == a # b /\ nreq < MaxChatReqs /\ HistoryStart(r, a, b)

NextMessages ==
  \/ \E s \in SocketIds : ChatConnect(s)
  \/ \E s \in SocketIds, b \in Peers : RevokeSend(s, b)
  \/ \E i \in SendIds : SendMatchCheck(i)
  \/ \E i \in SendIds : SendBlockCheck(i)
  \/ \E i \in SendIds : SendInsert(i)
  \/ \E i \in SendIds : SendNotify(i)
  \/ \E i \in SendIds : SendFail(i)
  \/ \E s \in SocketIds, b \in Peers : MarkMessagesRead(s, b)
  \/ \E i \in ReadIds : MarkReadUpdate(i)
  \/ \E r \in SeqReqIds, a \in Peers, b \in Peers : MessagesHistory(r, a, b)
  \/ \E r \in SeqReqIds : HistoryBlockCheck(r)
  \/ \E r \in SeqReqIds : HistorySelect(r)
  \/ \E r \in SeqReqIds : HistoryMarkRead(r)
  \/ \E r \in SeqReqIds, a \in Peers, b \in Peers : ChatLike(r, a, b)
  \/ \E r \in SeqReqIds : LikeBlockCheck(r)
  \/ \E r \in SeqReqIds : LikeTxn(r)
  \/ \E r \in SeqReqIds : LikeCommit(r)
  \/ \E r \in SeqReqIds : LikeFame(r)
  \/ \E r \in SeqReqIds, a \in Peers, b \in Peers : ChatUnlike(r, a, b)
  \/ \E r \in SeqReqIds : UnlikeCommit(r)
  \/ \E r \in SeqReqIds : UnlikeFame(r)
  \/ \E r \in SeqReqIds, a \in Peers, b \in Peers : ChatBlock(r, a, b)
  \/ \E r \in SeqReqIds : BlockCommit(r)

SpecMessages == InitChat /\ [][NextMessages]_vars

(***************************************************************************)
(* SpecOrder: the connections of NumPeers identities send up to MaxBurst   *)
(* messages to each other; every handler invocation is an async function   *)
(* of its own and its queries run on any client of the pool.               *)
(***************************************************************************)
OrderSend(s, b) ==
  /\ b # sockets[s].userId
  /\ Len(sends) < MaxBurst
  /\ OnSendMessage(s, b, <<"h">>)

NextOrder ==
  \/ \E s \in SocketIds : ChatConnect(s)
  \/ \E s \in SocketIds, b \in Peers : OrderSend(s, b)
  \/ \E i \in BurstIds : SendMatchCheck(i)
  \/ \E i \in BurstIds : SendBlockCheck(i)
  \/ \E i \in BurstIds : SendInsert(i)
  \/ \E i \in BurstIds : SendNotify(i)

SpecOrder == InitChat /\ [][NextOrder]_vars

(***************************************************************************)
(* SpecContain: the connection-bound handlers of NumPeers identities with  *)
(* invalid payloads, unmatched pairs and rejected queries.                 *)
(***************************************************************************)
NextContain ==
  \/ \E s \in SocketIds : ChatConnect(s)
  \/ \E s \in SocketIds, p \in Payloads : SendMessage(s, p[1], p[2])
  \/ \E i \in SendIds : SendMatchCheck(i)
  \/ \E i \in SendIds : SendBlockCheck(i)
  \/ \E i \in SendIds : SendInsert(i)
  \/ \E i \in SendIds : SendNotify(i)
  \/ \E i \in SendIds : SendFail(i)
  \/ \E s \in SocketIds, t \in TypingTypes, b \in Peers : Typing(s, t, b)
  \/ \E s \in SocketIds, b \in Peers : MarkMessagesRead(s, b)
  \/ \E i \in ReadIds : MarkReadUpdate(i)
  \/ \E i \in ReadIds : MarkReadFail(i)

SpecContain == InitChat /\ [][NextContain]_vars

(***************************************************************************)
(* SpecFail: like and unlike requests of NumPeers identities, up to        *)
(* MaxInFlight at a time, any awaited call of which can reject.            *)
(***************************************************************************)
NextFail ==
  \/ \E r \in ReqIds, a \in Peers, b \in Peers : LikeStart(r, a, b)
  \/ \E r \in ReqIds : LikeBlockCheck(r)
  \/ \E r \in ReqIds : LikeTxn(r)
  \/ \E r \in ReqIds : LikeCommit(r)
  \/ \E r \in ReqIds : LikeFame(r)
  \/ \E r \in ReqIds : LikeFail(r)
  \/ \E r \in ReqIds, a \in Peers, b \in Peers : UnlikeTxn(r, a, b)
  \/ \E r \in ReqIds : UnlikeCommit(r)
  \/ \E r \in ReqIds : UnlikeFame(r)
  \/ \E r \in ReqIds : UnlikeFail(r)

SpecFail == Init /\ [][NextFail]_vars

(***************************************************************************)
(* SpecBlockFame: like, unlike, profile view and block requests of        *)
(* NumPeers identities, one request after the other.                       *)
(***************************************************************************)
NextBlockFame ==
  \/ \E r \in SeqReqIds, a \in Peers, b \in Peers : LikeStart(r, a, b)
  \/ \E r \in SeqReqIds : LikeBlockCheck(r)
  \/ \E r \in SeqReqIds : LikeTxn(r)
  \/ \E r \in SeqReqIds : LikeCommit(r)
  \/ \E r \in SeqReqIds : LikeFame(r)
  \/ \E r \in SeqReqIds, a \in Peers, b \in Peers : UnlikeTxn(r, a, b)
  \/ \E r \in SeqReqIds : UnlikeCommit(r)
  \/ \E r \in SeqReqIds : UnlikeFame(r)
  \/ \E r \in SeqReqIds, a \in Peers, b \in Peers : VisitStart(r, a, b)
  \/ \E r \in SeqReqIds : VisitInsert(r)
  \/ \E r \in SeqReqIds : VisitNotify(r)
  \/ \E r \in SeqReqIds : VisitFame(r)
  \/ \E r \in SeqReqIds, a \in Peers, b \in Peers : BlockTxn(r, a, b)
  \/ \E r \in SeqReqIds : BlockCommit(r)

SpecBlockFame == Init /\ [][NextBlockFame]_vars

(***************************************************************************)
(* SpecTyping: connections of NumPeers identities, several per identity,   *)
(* that open, close and send typing_start and typing_stop while a like,    *)
(* unlike or block request changes the edges underneath.                   *)
(***************************************************************************)
NextTyping ==
  \/ \E s \in SocketIds, u \in Peers : PresenceConnect(s, u)
  \/ \E s \in SocketIds : Disconnect(s)
  \/ \E s \in SocketIds, t \in TypingTypes, b \in Peers : Typing(s, t, b)
  \/ \E r \in SeqReqIds, a \in Peers, b \in Peers : ChatLike(r, a, b)
  \/ \E r \in SeqReqIds : LikeBlockCheck(r)
  \/ \E r \in SeqReqIds : LikeTxn(r)
  \/ \E r \in SeqReqIds : LikeCommit(r)
  \/ \E r \in SeqReqIds : LikeFame(r)
  \/ \E r \in SeqReqIds, a \in Peers, b \in Peers : ChatUnlike(r, a, b)
  \/ \E r \in SeqReqIds : UnlikeCommit(r)
  \/ \E r \in SeqReqIds : UnlikeFame(r)
  \/ \E r \in SeqReqIds, a \in Peers, b \in Peers : ChatBlock(r, a, b)
  \/ \E r \in SeqReqIds : BlockCommit(r)

SpecTyping == InitChat /\ [][NextTyping]_vars

(***************************************************************************)
(* SpecVisitFail: profile views of NumPeers identities, up to MaxInFlight  *)
(* at a time, any write of which can reject.                               *)
(***************************************************************************)
NextVisitFail ==
  \/ \E r \in ReqIds, a \in Peers, b \in Peers : VisitStart(r, a, b)
  \/ \E r \in ReqIds : VisitInsert(r)
  \/ \E r \in ReqIds : VisitNotify(r)
  \/ \E r \in ReqIds : VisitFame(r)
  \/ \E r \in ReqIds : VisitFail(r)

SpecVisitFail == Init /\ [][NextVisitFail]_vars

(***************************************************************************)
(* SpecSession: every identity of NumPeers opens one connection and closes *)
(* it; the match queries of connect and disconnect run on the pool and     *)
(* resolve in any order.  An unlike or block request changes the match.    *)
(***************************************************************************)
NextSession ==
  \/ \E s \in SocketIds : ChatConnect(s)
  \/ \E bc \in BroadcastTasks : OnlineBroadcast(bc)
  \/ \E s \in SocketIds : Disconnect(s)
  \/ \E bc \in BroadcastTasks : OfflineBroadcast(bc)
  \/ \E r \in SeqReqIds, a \in Peers, b \in Peers : ChatUnlike(r, a, b)
  \/ \E r \in SeqReqIds : UnlikeCommit(r)
  \/ \E r \in SeqReqIds : UnlikeFame(r)
  \/ \E r \in SeqReqIds, a \in Peers, b \in Peers : ChatBlock(r, a, b)
  \/ \E r \in SeqReqIds : BlockCommit(r)

SpecSession == InitChat /\ [][NextSession]_vars

(***************************************************************************)
(* send_message (claims C1, C3, C4, C5), checked under SpecChat            *)
(***************************************************************************)
\* the events of send_message invocation i delivered to socket s
EventsOf(i, s) == {k \in DOMAIN inbox[s] : inbox[s][k].act = i}

\* message rows and notification rows inserted by invocation i
MessageRowsOf(i) == {k \in DOMAIN messages : messages[k].act = i}
NotificationRowsOf(i) == {n \in BagToSet(notifications) : n.act = i}

\* invocation i passed both authorization queries
Authorized(i) == sends[i].gMatch /\ sends[i].gNoBlock

\* C1: a send_message from A to B persists a message row only if both Like
\* edges existed when its match query ran and no Block edge existed when its
\* block query ran; otherwise the sender's connection (if still open) gets an
\* error event and there is no message row, no notification row and no live
\* event to B for that send.
C1_SendOnlyIfAuthorized ==
  \A i \in DOMAIN sends :
    /\ MessageRowsOf(i) # {} => Authorized(i)
    /\ (sends[i].pc = "done" /\ ~ Authorized(i)) =>
         /\ MessageRowsOf(i) = {}
         /\ NotificationRowsOf(i) = {}
         /\ \A s \in SocketIds : \A k \in EventsOf(i, s) :
              s = sends[i].sock /\ inbox[s][k].type = "error"
         /\ sockets[sends[i].sock].state = "open" => EventsOf(i, sends[i].sock) # {}

\* C1 witness: a send from 1 to 2 was authorized and its row is stored
C1_Witness ==
  \E i \in DOMAIN sends :
    /\ Authorized(i)
    /\ \E k \in MessageRowsOf(i) :
         messages[k].sender_id = 1 /\ messages[k].receiver_id = 2

\* the events delivered to socket s by the current step
NewEvents(s) == {inbox'[s][k] : k \in (Len(inbox[s]) + 1)..Len(inbox'[s])}

\* C3: within one send_message no live event is emitted and no notification
\* is created before the message insert has completed, and both store writes
\* (message row and notification row) have completed before any live
\* delivery to the receiver is attempted.
C3_WritesBeforeDelivery ==
  [][\A i \in DOMAIN sends' : \A s \in SocketIds : \A e \in NewEvents(s) :
       (e.act = i /\ e.type \in {"message_sent", "new_message", "new_notification"}) =>
         /\ "message" \in sends'[i].wrote
         /\ ("notification" \in sends'[i].wrote => "message" \in sends'[i].wrote)
         /\ (e.type \in {"new_message", "new_notification"} =>
               sends'[i].wrote = {"message", "notification"})]_vars

\* number of message rows from a to b, and of message notifications to b from a
MessageCount(a, b) ==
  Cardinality({k \in DOMAIN messages :
                 messages[k].sender_id = a /\ messages[k].receiver_id = b})

MessageNotificationCount(a, b) ==
  LET rows == {n \in BagToSet(notifications) :
                 n.type = "message" /\ n.from_user_id = a /\ n.user_id = b}
  IN  BagCardinality([n \in rows |-> CopiesIn(n, notifications)])

SendsQuiescent == \A i \in DOMAIN sends : sends[i].pc = "done"

\* C4: every send_message that persists a message row also persists exactly
\* one message notification for the receiver; at every quiescent state the
\* number of message notifications from A to B equals the number of messages
\* A sent to B.
C4_OneNotificationPerMessage ==
  SendsQuiescent =>
    /\ \A i \in DOMAIN sends :
         MessageRowsOf(i) # {} =>
           /\ Cardinality(NotificationRowsOf(i)) = 1
           /\ \A n \in NotificationRowsOf(i) : CopiesIn(n, notifications) = 1
    /\ \A a \in Users, b \in Users :
         MessageNotificationCount(a, b) = MessageCount(a, b)

\* C5: if the message insert of a send_message fails, no notification row is
\* created, the receiver gets neither new_message nor new_notification, the
\* sender gets no message_sent, and the sender gets exactly one error event
\* (none once its connection has closed).
C5_InsertFailureAbandons ==
  \A i \in DOMAIN sends :
    sends[i].failedAt = "insert" =>
      /\ MessageRowsOf(i) = {}
      /\ NotificationRowsOf(i) = {}
      /\ \A s \in SocketIds : \A k \in EventsOf(i, s) :
           s = sends[i].sock /\ inbox[s][k].type = "error"
      /\ Cardinality(EventsOf(i, sends[i].sock)) <= 1
      /\ sockets[sends[i].sock].state = "open" =>
           Cardinality(EventsOf(i, sends[i].sock)) = 1

\* C5 witness: the insert of a send from 1 to 2 failed while both were
\* connected and the sender got its error event
C5_Witness ==
  \E i \in DOMAIN sends :
    /\ sends[i].failedAt = "insert"
    /\ sends[i].userId = 1 /\ sends[i].receiverId = 2
    /\ userSockets[2] # None
    /\ sockets[sends[i].sock].state = "open"
    /\ \E k \in EventsOf(i, sends[i].sock) :
         inbox[sends[i].sock][k].reason = "failed"

(***************************************************************************)
(* Revoked chat (claim C11), checked under SpecRevoke                      *)
(***************************************************************************)
\* invocation i was rejected: nothing stored, nothing delivered but an error
\* event on the sender's connection
SendRejected(i) ==
  /\ MessageRowsOf(i) = {}
  /\ NotificationRowsOf(i) = {}
  /\ \A s \in SocketIds : \A k \in EventsOf(i, s) :
       s = sends[i].sock /\ inbox[s][k].type = "error"
  /\ sockets[sends[i].sock].state = "open" => EventsOf(i, sends[i].sock) # {}

\* history read r was refused: 403 without reading a message row
HistoryRefused(r) == reqs[r].status = 403 /\ reqs[r].result = {}

\* C11 as stated: once a Block between A and B has completed, or an Unlike
\* that dissolved their match has completed, every send_message started
\* afterwards by either toward the other is rejected with an error and every
\* chat-history read between them is refused.
C11_RevokedForGood ==
  /\ \A i \in DOMAIN sends :
       sends[i].gRevoked # {} =>
         /\ MessageRowsOf(i) = {}
         /\ sends[i].pc = "done" => SendRejected(i)
  /\ \A r \in ReqIds :
       (reqs[r].op = "history" /\ reqs[r].gRevoked # {}) =>
         /\ reqs[r].pc \in {"blockCheck", "done"}
         /\ reqs[r].pc = "done" => HistoryRefused(r)

\* C11 as amended: after a completed Block the send_message and history
\* reads started afterwards are rejected for good; after a completed Unlike
\* that dissolved the match they are rejected unless both Like edges exist
\* again when the request's match query runs (a new Like re-forms the match).
C11_RevokedUntilRematched ==
  /\ \A i \in DOMAIN sends :
       (\/ "block" \in sends[i].gRevoked
        \/ "unlike" \in sends[i].gRevoked /\ sends[i].pc # "matchCheck"
             /\ ~ sends[i].gMatch) =>
         /\ MessageRowsOf(i) = {}
         /\ sends[i].pc = "done" => SendRejected(i)
  /\ \A r \in ReqIds :
       (/\ reqs[r].op = "history"
        /\ \/ "block" \in reqs[r].gRevoked
           \/ "unlike" \in reqs[r].gRevoked /\ ~ (reqs[r].gFwd /\ reqs[r].gRev)) =>
         /\ reqs[r].pc \in {"blockCheck", "done"}
         /\ reqs[r].pc = "done" => HistoryRefused(r)

\* C11 witness: a send started after a match-dissolving Unlike was rejected
\* as not matched, and a history read started after a Block was refused
C11_Witness ==
  /\ \E i \in DOMAIN sends :
       /\ sends[i].gRevoked = {"unlike"} /\ sends[i].pc = "done"
       /\ \E k \in EventsOf(i, sends[i].sock) :
            inbox[sends[i].sock][k].reason = "not_matched"
  /\ \E r \in ReqIds :
       /\ reqs[r].op = "history" /\ "block" \in reqs[r].gRevoked
       /\ reqs[r].pc = "done" /\ reqs[r].status = 403

(***************************************************************************)
(* Presence map (claim C2), checked under SpecPresence                     *)
(***************************************************************************)
\* C2: when a connection closes, the userSockets entry of its identity is
\* removed only if it still refers to the closing connection; the close of a
\* superseded connection leaves the entry of the newer one in place.
C2_StaleCloseKeepsEntry ==
  [][\A s \in SocketIds :
       (/\ sockets[s].state = "open" /\ sockets'[s].state = "closed"
        /\ userSockets[sockets[s].userId] # s)
       => userSockets'[sockets[s].userId] = userSockets[sockets[s].userId]]_vars

(***************************************************************************)
(* Offline signal (claim C13), checked under SpecPresenceFair              *)
(***************************************************************************)
\* identity u has no open connection
NoConnection(u) ==
  \A s \in SocketIds : sockets[s].userId = u => sockets[s].state # "open"

\* the current step ends the offline broadcast bc
OfflineResolves(bc) ==
  bc.kind = "offline" /\ bc \in bcasts /\ bc \notin bcasts'

\* the current step delivers type naming u to the connection registered for m
Delivers(type, u, m) ==
  \E e \in NewEvents(userSockets[m]) : e.type = type /\ e.userId = u

Authenticates(s) == sockets[s].state = "unused" /\ sockets'[s].state = "open"

\* C14: userSockets holds at most one connection per identity, a connection
\* of that identity; a connection with a valid credential is accepted
\* whatever entry its identity has, and when it authenticates lookup of its
\* identity returns it, also while an older connection of the identity is
\* still open.
C14_NewestConnectionWins ==
  /\ [](/\ userSockets \in [Users -> SocketIds \cup {None}]
        /\ \A u \in Users :
             userSockets[u] # None => sockets[userSockets[u]].userId = u
        /\ \A s \in SocketIds, u \in Peers :
             (InOrder(s) /\ sockets[s].state = "unused")
             => ENABLED PresenceConnect(s, u))
  /\ [][\A s \in SocketIds :
          Authenticates(s) =>
            /\ userSockets'[sockets'[s].userId] = s
            /\ \A u \in Users \ {sockets'[s].userId} :
                 userSockets'[u] = userSockets[u]]_vars

\* C14 witness: user 1 holds two open connections and lookup(1) is the second
C14_Witness ==
  /\ sockets[1] = [state |-> "open", userId |-> 1]
  /\ sockets[2] = [state |-> "open", userId |-> 1]
  /\ userSockets[1] = 2

(***************************************************************************)
(* Presence signals (claim C15), checked under SpecPresence                *)
(***************************************************************************)
PresenceKind(type) == IF type = "user_online" THEN "online" ELSE "offline"

IsRejected(s) == sockets[s].state = "rejected"

\* C16: a connection attempt rejected for its credential never has an
\* identity or a userSockets entry, has no match query issued for it, has no
\* send_message or mark_messages_read invocation, cannot have a send_message,
\* typing or mark_messages_read event processed, receives nothing, and stays
\* rejected; every event delivered names an authenticated identity.
C16_RejectedNeverActs ==
  /\ [](\A s \in SocketIds : IsRejected(s) =>
          /\ sockets[s].userId = None
          /\ \A u \in Users : userSockets[u] # s
          /\ \A bc \in bcasts : bc.sock # s
          /\ \A i \in DOMAIN sends : sends[i].sock # s
          /\ \A i \in DOMAIN reads : reads[i].sock # s
          /\ inbox[s] = <<>>
          /\ \A b \in Peers :
               /\ ~ ENABLED RevokeSend(s, b)
               /\ ~ ENABLED MarkMessagesRead(s, b)
               /\ \A t \in TypingTypes : ~ ENABLED Typing(s, t, b))
  /\ [](\A s \in SocketIds : \A k \in DOMAIN inbox[s] :
          inbox[s][k].userId # None =>
            \E o \in SocketIds :
              /\ sockets[o].state \in {"open", "closed"}
              /\ sockets[o].userId = inbox[s][k].userId)
  /\ [][\A s \in SocketIds :
          /\ IsRejected(s) => IsRejected(s)'
          /\ (~ IsRejected(s) /\ IsRejected(s)') =>
               /\ userSockets' = userSockets /\ bcasts' = bcasts
               /\ inbox' = inbox]_vars

\* C16 witness: the first attempt was rejected; the second, of user 1, was
\* accepted, its match query was answered and it had a send_message and a
\* mark_messages_read processed
C16_Witness ==
  /\ IsRejected(1)
  /\ sockets[2] = [state |-> "open", userId |-> 1]
  /\ userSockets[1] = 2
  /\ bcasts = {}
  /\ \E i \in DOMAIN sends : sends[i].sock = 2 /\ sends[i].pc = "done"
  /\ \E i \in DOMAIN reads : reads[i].sock = 2 /\ reads[i].pc = "done"

(***************************************************************************)
(* Like notifications (claims C6, C7), checked under SpecSocial            *)
(***************************************************************************)
\* the notification rows inserted by the current step, with multiplicity
Inserted(n) == CopiesIn(n, notifications') - CopiesIn(n, notifications)

\* the current step inserts exactly one copy of each row of rows, nothing else
InsertsExactly(rows) ==
  \A n \in BagToSet(notifications') \cup rows :
    Inserted(n) = IF n \in rows THEN 1 ELSE 0

\* request r is a like whose transaction commits in the current step
LikeCommits(r) ==
  reqs[r].op = "like" /\ reqs[r].pc = "commit" /\ reqs'[r].pc = "fame"

\* request r is a like that takes a step other than its commit
LikeOtherStep(r) ==
  reqs'[r].op = "like" /\ reqs'[r] # reqs[r] /\ ~ LikeCommits(r)

\* C6: for distinct A, B with edge B->A present and edge A->B absent, a Like
\* of B by A creates exactly one match notification addressed to A (from B),
\* exactly one addressed to B (from A), and no like notification.
C6_MatchNotifiesBoth ==
  [][\A r \in ReqIds :
       /\ (LikeCommits(r) /\ reqs[r].gRev /\ ~ reqs[r].gFwd) =>
            InsertsExactly({Notification(reqs[r].userId, "match", reqs[r].id),
                            Notification(reqs[r].id, "match", reqs[r].userId)})
       /\ (LikeOtherStep(r) /\ reqs'[r].gRev /\ ~ reqs'[r].gFwd) =>
            notifications' = notifications]_vars

\* C6 witness: user 2 liked user 1 first, the like of 2 by 1 has answered
\* "It's a match!" and both match rows are stored
C6_Witness ==
  \E r \in ReqIds :
    /\ reqs[r].op = "like" /\ reqs[r].pc = "done" /\ reqs[r].status = 200
    /\ reqs[r].userId = 1 /\ reqs[r].id = 2
    /\ reqs[r].gRev /\ ~ reqs[r].gFwd /\ reqs[r].isMatch
    /\ CopiesIn(Notification(1, "match", 2), notifications) = 1
    /\ CopiesIn(Notification(2, "match", 1), notifications) = 1

\* C7: for distinct A, B with edge B->A absent, a Like of B by A creates
\* exactly one like notification addressed to B, no notification addressed
\* to A, and no match notification.
C7_LikeNotifiesTarget ==
  [][\A r \in ReqIds :
       /\ (LikeCommits(r) /\ ~ reqs[r].gRev) =>
            InsertsExactly({Notification(reqs[r].id, "like", reqs[r].userId)})
       /\ (LikeOtherStep(r) /\ ~ reqs'[r].gRev) =>
            notifications' = notifications]_vars

\* C7 witness: the like of 2 by 1 has answered "Like sent" with no reverse
\* edge, and the only notification is the like row of user 2
C7_Witness ==
  \E r \in ReqIds :
    /\ reqs[r].op = "like" /\ reqs[r].pc = "done" /\ reqs[r].status = 200
    /\ reqs[r].userId = 1 /\ reqs[r].id = 2
    /\ ~ reqs[r].gRev /\ ~ reqs[r].isMatch
    /\ BagToSet(notifications) = {Notification(2, "like", 1)}
    /\ CopiesIn(Notification(2, "like", 1), notifications) = 1

(***************************************************************************)
(* Block (claim C12), checked under SpecSocial                             *)
(***************************************************************************)
\* request r is a block whose transaction commits in the current step
BlockCommits(r) ==
  reqs[r].op = "block" /\ reqs[r].pc = "commit" /\ reqs'[r].pc = "done"

\* request r is a block that takes a step other than its commit
BlockOtherStep(r) ==
  reqs'[r].op = "block" /\ reqs'[r] # reqs[r] /\ ~ BlockCommits(r)

\* C12: a successful Block of B by A adds the Block edge A->B (none if it is
\* there already, and the request still succeeds), deletes the Like edges
\* A->B and B->A that were present, leaves every other Like and Block edge
\* unchanged, and creates no notification; before its commit the request
\* changes nothing in the store.
C12_BlockFrame ==
  [][\A r \in ReqIds :
       LET a == reqs[r].userId
           b == reqs[r].id
       IN
       /\ BlockCommits(r) =>
            /\ reqs'[r].status = 200
            /\ blocks' = blocks \cup {<<a, b>>}
            /\ reqs[r].gFwd => <<a, b>> \notin likes'
            /\ reqs[r].gRev => <<b, a>> \notin likes'
            /\ likes' \subseteq likes
            /\ (likes \ likes') \subseteq {<<a, b>>, <<b, a>>}
            /\ notifications' = notifications
       /\ BlockOtherStep(r) =>
            (reqs'[r].userId # reqs'[r].id => reqs'[r].pc = "commit")
            /\ likes' = likes /\ blocks' = blocks
            /\ notifications' = notifications]_vars

\* C12 witness: users 1 and 2 were matched, the Block of 2 by 1 has answered
\* 200, both Like edges are gone and only the three notifications of the two
\* likes exist
C12_Witness ==
  \E r \in ReqIds :
    /\ reqs[r].op = "block" /\ reqs[r].pc = "done" /\ reqs[r].status = 200
    /\ reqs[r].userId = 1 /\ reqs[r].id = 2
    /\ reqs[r].gFwd /\ reqs[r].gRev
    /\ likes = {} /\ blocks = {<<1, 2>>}
    /\ notifications = MatchedNotifications

(***************************************************************************)
(* Reputation score (claims C8, C9, C10), checked under SpecFame           *)
(***************************************************************************)
Quiescent == \A r \in ReqIds : reqs[r].pc \in {"idle", "done"}

\* notifications addressed to b, as a set of rows
NotifTo(b) == {n \in BagToSet(notifications) : n.user_id = b}

\* number of rows in visits with visited_id = b, repeat visits included
VisitEvents(b) == Cardinality(VisitRows(b))

\* identities currently holding a Like edge to b
Likers(b) == {a \in Users : <<a, b>> \in likes}

\* identities that liked b and later unliked b
Unlikers(b) == {a \in Users : <<a, b>> \in unliked}

\* the score the specification defines
SpecScore(b) ==
  3 * Cardinality(Likers(b)) + 1 * VisitEvents(b) - 2 * Cardinality(Unlikers(b))

\* C8: after a completed Like, Unlike or Visit of target B, the stored score
\* of B is 3 x (current likers) + 1 x (visit events, repeats counted)
\* - 2 x (identities that liked and later unliked B).
C8_ScoreIsSpecFormula ==
  \A r \in SeqReqIds :
    (/\ Quiescent
     /\ reqs[r].op \in {"like", "unlike", "visit"}
     /\ reqs[r].pc = "done" /\ reqs[r].status = 200
     /\ reqs[r].id # reqs[r].userId)
    => fame_rating[reqs[r].id] = SpecScore(reqs[r].id)

\* the interactions recorded on b are one Like by a followed by one Unlike by a
LikedThenUnliked(a, b) ==
  /\ a # b
  /\ Quiescent
  /\ VisitRows(b) = {}
  /\ \E t \in {"like", "match"} :
       NotifTo(b) = {Notification(b, t, a), Notification(b, "unlike", a)}
  /\ \A n \in NotifTo(b) : CopiesIn(n, notifications) = 1

\* C9: from no interactions on B, Like of B by A followed by Unlike of B by A
\* leaves B with zero current likers and a stored score of -2.
C9_LikeUnlikeScoreMinusTwo ==
  \A a \in Users, b \in Users :
    LikedThenUnliked(a, b) => (Likers(b) = {} /\ fame_rating[b] = -2)

\* B holds likes from exactly two identities, one visit event, and no unlike
TwoLikesOneVisit(b) ==
  /\ Quiescent
  /\ Cardinality(Likers(b)) = 2
  /\ VisitEvents(b) = 1
  /\ Unlikers(b) = {}

\* C10: after Likes from two distinct identities and one Visit, in any order
\* and with no Unlike, B's stored score equals 7.
C10_TwoLikesOneVisitIsSeven ==
  \A b \in Users : TwoLikesOneVisit(b) => fame_rating[b] = 7

\* C10 witness: both likes and the visit on user 2 have completed, by three
\* different identities
C10_Witness ==
  /\ TwoLikesOneVisit(2)
  /\ Likers(2) = {1, 3}
  /\ CopiesIn(<<4, 2>>, visits) = 1
  /\ fame_rating[2] = 7

(***************************************************************************)
(* Unlike (claim C17), checked under SpecSocial                            *)
(***************************************************************************)
\* request r is an unlike whose transaction commits in the current step
UnlikeCommits(r) ==
  reqs[r].op = "unlike" /\ reqs[r].pc = "commit" /\ reqs'[r].pc = "fame"

\* request r is an unlike that answers 200 in the current step
UnlikeAnswers(r) ==
  reqs[r].op = "unlike" /\ reqs[r].pc = "fame" /\ reqs'[r].pc = "done"

\* request r is an unlike that takes another step
UnlikeOtherStep(r) ==
  /\ reqs'[r].op = "unlike" /\ reqs'[r] # reqs[r]
  /\ ~ UnlikeCommits(r) /\ ~ UnlikeAnswers(r)

\* the score the recompute stores for b: 3 per liker, 1 per distinct visitor
StoredScore(b) ==
  3 * Cardinality(Likers(b))
    + Cardinality({v \in Users : CopiesIn(<<v, b>>, visits) > 0})

LikeChecksBlock(r) ==
  reqs[r].op = "like" /\ reqs[r].pc = "blockCheck" /\ reqs'[r].pc # "blockCheck"

\* C18: a Like is rejected whenever the target is the acting identity or the
\* acting identity has no profile picture when the picture check runs (400),
\* or a Block edge exists between the pair in either direction when the block
\* check runs (403); the steps up to and including the rejection insert no
\* Like edge, create no notification and recompute no score, and a rejected
\* Like takes no further step.
C18_LikeRejected ==
  /\ [](\A r \in ReqIds : reqs[r].op = "like" =>
          /\ (reqs[r].userId = reqs[r].id \/ ~ reqs[r].gPic) =>
               (reqs[r].pc = "done" /\ reqs[r].status = 400)
          /\ reqs[r].gBlk =>
               (reqs[r].pc = "done" /\ reqs[r].status = 403)
          /\ (reqs[r].pc \in {"txn", "commit", "fame"} \/ reqs[r].status = 200) =>
               (reqs[r].userId # reqs[r].id /\ reqs[r].gPic /\ ~ reqs[r].gBlk))
  /\ [][/\ nreq' # nreq =>
            (likes' = likes /\ notifications' = notifications
             /\ fame_rating' = fame_rating)
        /\ \A r \in ReqIds : LikeChecksBlock(r) =>
            (likes' = likes /\ notifications' = notifications
             /\ fame_rating' = fame_rating)
        /\ \A r \in ReqIds :
            (reqs[r].op = "like" /\ reqs[r].status \in {400, 403}) =>
              (reqs'[r] = reqs[r] \/ nreq' = nreq + 1)]_vars

\* C18 witness: the Like of 2 by 1 was answered 400 while 1 has no profile
\* picture, the Like of 1 by 2 was answered 403 while a Block edge joins the
\* pair, and there is no Like edge, no notification and no recomputed score
C18_Witness ==
  /\ \E r \in ReqIds :
       /\ reqs[r].op = "like" /\ reqs[r].pc = "done" /\ reqs[r].status = 400
       /\ reqs[r].userId = 1 /\ reqs[r].id = 2 /\ ~ reqs[r].gPic
  /\ \E r \in ReqIds :
       /\ reqs[r].op = "like" /\ reqs[r].pc = "done" /\ reqs[r].status = 403
       /\ reqs[r].userId = 2 /\ reqs[r].id = 1 /\ reqs[r].gBlk
       /\ <<1, 2>> \in blocks
  /\ likes = {} /\ notifications = EmptyBag
  /\ fame_rating = [u \in Users |-> 0]

(***************************************************************************)
(* Live notification of a like (claim C19), checked under SpecChat         *)
(***************************************************************************)
\* connection s holds a new_notification event from user a that no
\* send_message caused
HoldsLikeNotification(s, a) ==
  \E k \in DOMAIN inbox[s] :
    /\ inbox[s][k].type = "new_notification"
    /\ inbox[s][k].userId = a /\ inbox[s][k].act = None

\* C19: once a Like of B by A has answered 200, every identity a notification
\* was created for (B for a like, A and B for a match) whose userSockets
\* entry at the commit is a connection still open and still registered holds
\* a new_notification event for it.
C19_LikeNotifiesLive ==
  \A r \in ReqIds :
    (reqs[r].op = "like" /\ reqs[r].pc = "done" /\ reqs[r].status = 200) =>
      \A xs \in reqs[r].gReach :
        (sockets[xs[2]].state = "open" /\ userSockets[xs[1]] = xs[2]) =>
          HoldsLikeNotification(xs[2],
            IF xs[1] = reqs[r].id THEN reqs[r].userId ELSE reqs[r].id)

(***************************************************************************)
(* Profile view (claim C20), checked under SpecSocial                      *)
(***************************************************************************)
\* view request r moves from position p to position q in the current step
VisitStep(r, p, q) ==
  reqs[r].op = "visit" /\ reqs[r].pc = p /\ reqs'[r].pc = q

\* C20: a view of the profile of B by V # B with no Block between them when
\* the block check runs inserts one Visit row (V, B), then creates one visit
\* notification addressed to B (from V), then recomputes the score of B and
\* of nobody else and answers 200, each once and in that order; a view of
\* one's own profile answers 200 at once; the arrival of a view writes
\* nothing.
C20_VisitEffect ==
  /\ [](\A r \in ReqIds : reqs[r].op = "visit" =>
          /\ reqs[r].userId = reqs[r].id =>
               (reqs[r].pc = "done" /\ reqs[r].status = 200)
          /\ (reqs[r].userId # reqs[r].id /\ ~ reqs[r].gBlk) =>
               (reqs[r].pc \in {"visit", "notify", "fame"}
                \/ (reqs[r].pc = "done" /\ reqs[r].status = 200))
          /\ reqs[r].pc \in {"visit", "notify", "fame"} =>
               (reqs[r].userId # reqs[r].id /\ ~ reqs[r].gBlk))
  /\ [][/\ nreq' # nreq =>
            (visits' = visits /\ notifications' = notifications
             /\ fame_rating' = fame_rating)
        /\ \A r \in ReqIds :
             LET v == reqs[r].userId
                 b == reqs[r].id
             IN
             /\ (reqs[r].op = "visit" /\ reqs[r].pc = "visit" /\ reqs'[r] # reqs[r]) =>
                  /\ VisitStep(r, "visit", "notify")
                  /\ visits' = visits (+) SetToBag({<<v, b>>})
                  /\ notifications' = notifications /\ fame_rating' = fame_rating
             /\ (reqs[r].op = "visit" /\ reqs[r].pc = "notify" /\ reqs'[r] # reqs[r]) =>
                  /\ VisitStep(r, "notify", "fame")
                  /\ InsertsExactly({Notification(b, "visit", v)})
                  /\ visits' = visits /\ fame_rating' = fame_rating
             /\ (reqs[r].op = "visit" /\ reqs[r].pc = "fame" /\ reqs'[r] # reqs[r]) =>
                  /\ VisitStep(r, "fame", "done") /\ reqs'[r].status = 200
                  /\ fame_rating'[b] = StoredScore(b)
                  /\ \A u \in Users \ {b} : fame_rating'[u] = fame_rating[u]
                  /\ visits' = visits /\ notifications' = notifications]_vars

\* C20 witness: the view of 2 by 1 and the view of 1 by 1 have both answered
\* 200; the only Visit row is (1, 2), the only notification is the visit
\* notification of user 2 and only the score of 2 is recomputed
C20_Witness ==
  /\ \E r \in ReqIds :
       /\ reqs[r].op = "visit" /\ reqs[r].pc = "done" /\ reqs[r].status = 200
       /\ reqs[r].userId = 1 /\ reqs[r].id = 2
  /\ \E r \in ReqIds :
       /\ reqs[r].op = "visit" /\ reqs[r].pc = "done" /\ reqs[r].status = 200
       /\ reqs[r].userId = 1 /\ reqs[r].id = 1
  /\ visits = SetToBag({<<1, 2>>})
  /\ notifications = SetToBag({Notification(2, "visit", 1)})
  /\ fame_rating[2] = 1 /\ fame_rating[1] = 0

(***************************************************************************)
(* mark_messages_read (claim C21), checked under SpecGate                  *)
(***************************************************************************)
\* invocation i of mark_messages_read runs its UPDATE in the current step
ReadUpdates(i) == reads[i].pc = "update" /\ reads'[i].pc = "done"

\* C21: mark_messages_read(S) by identity R sets is_read on exactly the
\* unread messages sent by S to R and leaves every other message as it was,
\* delivers a messages_read event naming R to the connection registered for
\* S if there is one, and the same UPDATE run again on the result changes no
\* message.
C21_MarkReadEffect ==
  [][\A i \in DOMAIN reads : ReadUpdates(i) =>
       LET R == reads[i].userId
           S == reads[i].senderId
       IN
       /\ DOMAIN messages' = DOMAIN messages
       /\ \A k \in DOMAIN messages :
            messages'[k] =
              IF /\ messages[k].sender_id = S /\ messages[k].receiver_id = R
                 /\ ~ messages[k].is_read
                THEN [messages[k] EXCEPT !.is_read = TRUE]
                ELSE messages[k]
       /\ Lookup(S) # None =>
            \E e \in NewEvents(Lookup(S)) : e.type = "messages_read" /\ e.userId = R
       /\ \A s \in SocketIds \ {Lookup(S)} : inbox'[s] = inbox[s]
       /\ MarkRead(S, R)' = messages']_vars

\* C21 witness: the message of user 1 to user 2 is stored, user 2 has marked
\* the messages of 1 read, the row is read and the connection of 1 holds the
\* messages_read event naming 2
C21_Witness ==
  /\ \E k \in DOMAIN messages :
       /\ messages[k].sender_id = 1 /\ messages[k].receiver_id = 2
       /\ messages[k].is_read
  /\ \E i \in DOMAIN reads :
       reads[i].pc = "done" /\ reads[i].userId = 2 /\ reads[i].senderId = 1
  /\ userSockets[1] # None
  /\ \E k \in DOMAIN inbox[userSockets[1]] :
       /\ inbox[userSockets[1]][k].type = "messages_read"
       /\ inbox[userSockets[1]][k].userId = 2

(***************************************************************************)
(* The messages table (claim C22), checked under SpecMessages              *)
(***************************************************************************)
\* C22: across send_message, mark_messages_read, chat-history read, Like,
\* Unlike and Block steps no message row is deleted, the id, sender,
\* receiver and content of a row never change, and is_read only moves from
\* false to true.
C22_MessagesAppendOnly ==
  [][/\ Len(messages') >= Len(messages)
     /\ \A k \in DOMAIN messages :
          /\ messages'[k].id = messages[k].id
          /\ messages'[k].sender_id = messages[k].sender_id
          /\ messages'[k].receiver_id = messages[k].receiver_id
          /\ messages'[k].content = messages[k].content
          /\ messages[k].is_read => messages'[k].is_read]_vars

\* C22 witness: the message of user 1 to user 2 has been marked read by a
\* mark_messages_read, and a Block of 1 by 2 has completed after it; the row
\* is still there
C22_Witness ==
  /\ Len(messages) = 1
  /\ messages[1].sender_id = 1 /\ messages[1].receiver_id = 2
  /\ messages[1].content = <<"h">> /\ messages[1].is_read
  /\ \E i \in DOMAIN reads : reads[i].pc = "done" /\ reads[i].userId = 2
  /\ \E r \in ReqIds :
       /\ reqs[r].op = "block" /\ reqs[r].pc = "done" /\ reqs[r].status = 200
       /\ reqs[r].userId = 2 /\ reqs[r].id = 1

(***************************************************************************)
(* Racing likes (claim C23), checked under SpecSocial                      *)
(***************************************************************************)
\* like request r has committed its transaction
LikeCommitted(r) ==
  reqs[r].op = "like" /\ (reqs[r].pc = "fame" \/ reqs[r].status = 200)

\* r1 and r2 are committed likes of each other's acting identity, each of
\* which found no reverse edge, and no other request has been issued
RacedLikes(r1, r2) ==
  /\ r1 # r2 /\ nreq = 2
  /\ LikeCommitted(r1) /\ LikeCommitted(r2)
  /\ reqs[r1].userId = reqs[r2].id /\ reqs[r1].id = reqs[r2].userId
  /\ ~ reqs[r1].gRev /\ ~ reqs[r2].gRev

\* C23: when A likes B and B likes A concurrently and each runs its
\* reverse-edge check before the other's insert is committed, both conclude
\* isMatch = false, each creates only its like notification, and both Like
\* edges are stored with no match notification for either identity.
C23_RacingLikesMissMatch ==
  \A r1 \in ReqIds, r2 \in ReqIds : RacedLikes(r1, r2) =>
    LET a == reqs[r1].userId
        b == reqs[r1].id
    IN
    /\ ~ reqs[r1].isMatch /\ ~ reqs[r2].isMatch
    /\ {<<a, b>>, <<b, a>>} \subseteq likes
    /\ BagToSet(notifications) = {Notification(b, "like", a), Notification(a, "like", b)}
    /\ \A n \in BagToSet(notifications) : CopiesIn(n, notifications) = 1

\* C23 witness: the likes of 2 by 1 and of 1 by 2 raced, both have answered
\* "Like sent", both edges are stored and the two like rows are the only
\* notifications
C23_Witness ==
  /\ \E r1 \in ReqIds, r2 \in ReqIds :
       /\ RacedLikes(r1, r2)
       /\ reqs[r1].userId = 1 /\ reqs[r1].id = 2
       /\ reqs[r1].status = 200 /\ reqs[r2].status = 200
       /\ ~ reqs[r1].isMatch /\ ~ reqs[r2].isMatch
  /\ likes = {<<1, 2>>, <<2, 1>>}
  /\ notifications = SetToBag({Notification(2, "like", 1), Notification(1, "like", 2)})

(***************************************************************************)
(* Order of one connection's messages (claim C24), checked under SpecOrder *)
(***************************************************************************)
\* the positions in the inbox of socket s of the new_message events of
\* invocation i
NewMessageAt(i, s) == {k \in EventsOf(i, s) : inbox[s][k].type = "new_message"}

\* C24: if a connection sends send_message m1 and then m2 to the same
\* receiver and both are authorized, m1 is persisted before m2 and the
\* receiver's new_message for m1 is delivered before the one for m2.
C24_PerConnectionOrder ==
  \A i \in DOMAIN sends, j \in DOMAIN sends :
    (/\ i < j
     /\ sends[i].sock = sends[j].sock /\ sends[i].receiverId = sends[j].receiverId
     /\ sends[i].pc # "done" \/ Authorized(i)) =>
      /\ MessageRowsOf(j) # {} =>
           /\ MessageRowsOf(i) # {}
           /\ \A ki \in MessageRowsOf(i), kj \in MessageRowsOf(j) : ki < kj
      /\ \A s \in SocketIds : \A kj \in NewMessageAt(j, s) :
           \A ki \in NewMessageAt(i, s) : ki < kj

(***************************************************************************)
(* Error event of a send_message (claim C25), checked under SpecChat       *)
(***************************************************************************)
\* the types of the events of invocation i delivered to socket s
EventTypesOf(i, s) == {inbox[s][k].type : k \in EventsOf(i, s)}

\* C25: whenever the sender of a send_message has received an error event
\* for it, no connection has received a new_message or new_notification
\* caused by it and the sender has received no message_sent for it.
C25_ErrorMeansNothingDelivered ==
  \A i \in DOMAIN sends :
    "error" \in EventTypesOf(i, sends[i].sock) =>
      /\ "message_sent" \notin EventTypesOf(i, sends[i].sock)
      /\ \A s \in SocketIds :
           EventTypesOf(i, s) \cap {"new_message", "new_notification"} = {}

(***************************************************************************)
(* Failure containment (claim C26), checked under SpecContain              *)
(***************************************************************************)
\* invocation i of send_message ends in the current step without having
\* completed: invalid payload, not matched, blocked, or a rejected query
SendFails(i) ==
  /\ sends'[i].pc = "done"
  /\ i \in DOMAIN sends => sends[i].pc # "done"
  /\ "notification" \notin sends'[i].wrote

\* invocation i of mark_messages_read ends in its catch in the current step
ReadFails(i) == reads[i].pc = "update" /\ reads'[i].pc = "failed"

\* C26: the step in which a send_message or mark_messages_read invocation
\* fails (validation, authorization, or a rejected query) leaves userSockets
\* unchanged, closes no connection and delivers nothing to a connection
\* other than the acting one; a failed mark_messages_read delivers nothing
\* at all.  (A typing handler that throws changes nothing.)
C26_FailureContained ==
  [][/\ \A i \in DOMAIN sends' : SendFails(i) =>
          /\ userSockets' = userSockets
          /\ sockets' = sockets
          /\ \A s \in SocketIds \ {sends'[i].sock} : inbox'[s] = inbox[s]
     /\ \A i \in DOMAIN reads : ReadFails(i) =>
          /\ userSockets' = userSockets
          /\ sockets' = sockets
          /\ inbox' = inbox]_vars

\* C26 witness: both users are connected; the notification insert of a
\* send_message of user 1 was rejected and a mark_messages_read of user 1
\* failed; both connections are still open and registered
C26_Witness ==
  /\ sockets[1] = [state |-> "open", userId |-> 1]
  /\ sockets[2] = [state |-> "open", userId |-> 2]
  /\ userSockets[1] = 1 /\ userSockets[2] = 2
  /\ \E i \in DOMAIN sends : sends[i].sock = 1 /\ sends[i].failedAt = "notify"
  /\ \E i \in DOMAIN reads : reads[i].sock = 1 /\ reads[i].pc = "failed"

(***************************************************************************)
(* Like and unlike ending with an error (claim C27), checked under         *)
(* SpecFail                                                                *)
(***************************************************************************)
\* request r is a like or unlike that was answered with an error
EndedWithError(r) ==
  reqs[r].op \in {"like", "unlike"} /\ reqs[r].pc = "done" /\ reqs[r].status = 500

\* C27: whenever a Like or Unlike request has ended with an error (a failure
\* of the score recompute included), the store shows no effect of it: its
\* transaction changed neither likes nor notifications, and if it was the
\* first request on the empty store, likes and notifications are still
\* empty.
C27_ErrorLeavesNoTrace ==
  \A r \in ReqIds : EndedWithError(r) =>
    /\ reqs[r].gWrote = {}
    /\ nreq = 1 => (likes = {} /\ notifications = EmptyBag)

(***************************************************************************)
(* Score after a block (claim C28), checked under SpecBlockFame            *)
(***************************************************************************)
\* C28: the stored score follows every event that changes a count it is
\* computed from: when no request is in flight, every stored score equals
\* the formula evaluated on the store, and in particular after a Block that
\* deleted a Like edge targeting X the stored score of X equals the formula
\* evaluated on the edges that remain.
C28_BlockRecomputesScore ==
  Quiescent =>
    /\ \A u \in Users : fame_rating[u] = FameRating(u)
    /\ \A r \in SeqReqIds :
         (reqs[r].op = "block" /\ reqs[r].status = 200) =>
           \A l \in reqs[r].rows : fame_rating[l[2]] = FameRating(l[2])

(***************************************************************************)
(* Recompute before the response (claim C29), checked under SpecSocial     *)
(***************************************************************************)
\* request r, a like, unlike or view of somebody else, is answered 200 in
\* the current step
AnswersSuccess(r) ==
  /\ reqs'[r].op \in {"like", "unlike", "visit"}
  /\ reqs'[r].userId # reqs'[r].id
  /\ reqs'[r].status = 200 /\ reqs'[r] # reqs[r]

\* C29: a Like, Unlike or Visit is answered with success only by the step
\* that completes the recompute of the target's score, which runs after the
\* request's own writes: a request waiting for its recompute has committed
\* its writes, and as the success response is produced the stored score of
\* the target equals the formula evaluated on the store.
C29_RecomputeBeforeResponse ==
  /\ [](\A r \in ReqIds : reqs[r].pc = "fame" =>
          /\ reqs[r].op \in {"like", "unlike"} => "notifications" \in reqs[r].gWrote
          /\ reqs[r].op = "visit" =>
               /\ CopiesIn(<<reqs[r].userId, reqs[r].id>>, visits) > 0
               /\ CopiesIn(Notification(reqs[r].id, "visit", reqs[r].userId),
                           notifications) > 0)
  /\ [][\A r \in ReqIds : AnswersSuccess(r) =>
          /\ reqs[r].pc = "fame" /\ reqs[r].op = reqs'[r].op
          /\ reqs[r].userId = reqs'[r].userId /\ reqs[r].id = reqs'[r].id
          /\ fame_rating'[reqs[r].id] = FameRating(reqs[r].id)']_vars

\* C29 witness: the like of 2 by 1 has answered 200 and the stored score of
\* user 2 counts it
C29_Witness ==
  /\ \E r \in ReqIds :
       /\ reqs[r].op = "like" /\ reqs[r].pc = "done" /\ reqs[r].status = 200
       /\ reqs[r].userId = 1 /\ reqs[r].id = 2
  /\ likes = {<<1, 2>>}
  /\ fame_rating[2] = LikeWeight

(***************************************************************************)
(* Sender closes during a send_message (claim C30), checked under SpecChat *)
(***************************************************************************)
\* invocation i passed authorization on an open connection that has closed
ClosedAfterAuthorization(i) ==
  /\ Authorized(i) /\ sends[i].gOpen
  /\ sends[i].pc \in {"insert", "notify", "done"}
  /\ sockets[sends[i].sock].state = "closed"

\* C30: when the sender's connection closes after its send_message passed
\* authorization, the invocation is not aborted: its message insert and its
\* notification insert remain the next steps, an invocation that finished
\* without a rejected query has stored one message row and one message
\* notification, and the connection registered for the receiver when the
\* message was inserted holds its new_message.
C30_ClosedSenderStillCompletes ==
  \A i \in DOMAIN sends : ClosedAfterAuthorization(i) =>
    /\ sends[i].pc = "insert" => ENABLED SendInsert(i)
    /\ sends[i].pc = "notify" => ENABLED SendNotify(i)
    /\ "message" \in sends[i].wrote =>
         /\ Cardinality(MessageRowsOf(i)) = 1
         /\ sends[i].receiverSocketId # None =>
              NewMessageAt(i, sends[i].receiverSocketId) # {}
    /\ (sends[i].pc = "done" /\ sends[i].failedAt = "none") =>
         /\ sends[i].wrote = {"message", "notification"}
         /\ Cardinality(NotificationRowsOf(i)) = 1

\* C30 witness: the connection of user 1 was open when its send_message to
\* user 2 passed authorization and closed before the insert (it holds no
\* message_sent); the message row and the notification are stored and the
\* connection of user 2 holds new_message
C30_Witness ==
  \E i \in DOMAIN sends :
    /\ ClosedAfterAuthorization(i)
    /\ sends[i].userId = 1 /\ sends[i].receiverId = 2
    /\ sends[i].pc = "done" /\ sends[i].failedAt = "none"
    /\ EventsOf(i, sends[i].sock) = {}
    /\ MessageRowsOf(i) # {} /\ NotificationRowsOf(i) # {}
    /\ userSockets[2] # None /\ NewMessageAt(i, userSockets[2]) # {}


(***************************************************************************)
(* typing_start and typing_stop (claim C31), checked under SpecTyping      *)
(***************************************************************************)
\* connection r is delivered a typing signal in the current step
TypingDelivered(r) ==
  /\ Len(inbox'[r]) = Len(inbox[r]) + 1
  /\ inbox'[r][Len(inbox'[r])].type \in TypingTypes

\* the signal of connection s to receiver b is appended to the inbox of the
\* connection registered for b
TypingReaches(s, t, b) ==
  /\ Typing(s, t, b)
  /\ inbox'[userSockets[b]] =
       Append(inbox[userSockets[b]],
              Event(t, sockets[s].userId, None, None, Relation(sockets[s].userId, b)))

\* C31: typing_start and typing_stop write nothing to the store and change
\* no userSockets entry; the receiver gets user_typing / user_stopped_typing
\* iff it has a userSockets entry at that moment, whether or not sender and
\* receiver are matched or blocked: with an entry the handler delivers the
\* signal to the registered connection, and a step that delivers a typing
\* signal delivers it to a registered connection, to no other connection,
\* and changes neither the store nor userSockets nor any connection.
C31_TypingFrame ==
  /\ [](\A s \in SocketIds, t \in TypingTypes, b \in Peers :
          (/\ sockets[s].state = "open"
           /\ userSockets[b] # None
           /\ TypingEvents(userSockets[b]) < MaxTyping)
            => ENABLED TypingReaches(s, t, b))
  /\ [][\A r \in SocketIds : TypingDelivered(r) =>
          /\ UNCHANGED <<storeVars, userSockets, sockets>>
          /\ \E b \in Peers : userSockets[b] = r
          /\ \A q \in SocketIds \ {r} : inbox'[q] = inbox[q]]_vars

\* C31 witness: one connection holds a typing signal delivered while sender
\* and receiver were matched, another one a signal delivered while a Block
\* edge joined them
C31_Witness ==
  /\ \E r \in SocketIds : \E k \in DOMAIN inbox[r] :
       inbox[r][k].type \in TypingTypes /\ inbox[r][k].reason = "matched"
  /\ \E r \in SocketIds : \E k \in DOMAIN inbox[r] :
       inbox[r][k].type \in TypingTypes /\ inbox[r][k].reason = "blocked"

(***************************************************************************)
(* send_message with a malformed payload (claim C32), checked under        *)
(* SpecChat                                                                *)
(***************************************************************************)
\* the payload of invocation i has no receiver or a content that is empty
\* after trimming
Malformed(i) == sends[i].receiverId = None \/ Trim(sends[i].content) = <<>>

\* invocation i arrives in the current step
Arrives(i) == i = Len(sends) + 1 /\ Len(sends') = i

\* C32: a send_message whose content is empty after trimming, or whose
\* receiver is missing, yields an error event to the sender only, performs
\* no store read or write, emits nothing to the receiver and leaves the
\* sender's connection open and registered: its handler ends in the step in
\* which the event arrives, that step appends one error event to the
\* sender's connection and changes nothing else, and the invocation never
\* runs a query, inserts a row or delivers another event afterwards.
C32_MalformedRejected ==
  /\ [](\A i \in DOMAIN sends : Malformed(i) =>
          /\ sends[i].pc = "done"
          /\ sends[i].wrote = {} /\ sends[i].failedAt = "none"
          /\ ~ sends[i].gMatch /\ ~ sends[i].gNoBlock
          /\ MessageRowsOf(i) = {} /\ NotificationRowsOf(i) = {}
          /\ \A s \in SocketIds \ {sends[i].sock} : EventsOf(i, s) = {}
          /\ \A k \in EventsOf(i, sends[i].sock) :
               inbox[sends[i].sock][k].type = "error")
  /\ [][\A i \in SendIds : (Arrives(i) /\ Malformed(i)') =>
          /\ UNCHANGED <<storeVars, userSockets, sockets>>
          /\ sockets[sends'[i].sock].state = "open"
          /\ inbox'[sends'[i].sock] =
               Append(inbox[sends'[i].sock], Event("error", None, None, i, "invalid"))
          /\ \A s \in SocketIds \ {sends'[i].sock} : inbox'[s] = inbox[s]]_vars

\* C32 witness: users 1 and 2 are matched and connected; user 1 sent a
\* content of one blank to user 2 and holds the error event, its connection
\* is open and registered, and user 2 was delivered nothing
C32_Witness ==
  \E i \in DOMAIN sends :
    /\ sends[i].userId = 1 /\ sends[i].receiverId = 2 /\ sends[i].content = <<" ">>
    /\ IsMutualMatch(1, 2)
    /\ sockets[sends[i].sock].state = "open" /\ userSockets[1] = sends[i].sock
    /\ EventsOf(i, sends[i].sock) # {}
    /\ userSockets[2] # None /\ inbox[userSockets[2]] = <<>>
    /\ messages = <<>>

(***************************************************************************)
(* Repeated like (claim C33), checked under SpecSocial                     *)
(***************************************************************************)
\* request r is a like that is answered in the current step
LikeAnswers(r) ==
  reqs[r].op = "like" /\ reqs[r].pc = "fame" /\ reqs'[r].pc = "done"

\* C33: when edge A->B already exists as the INSERT of a Like of B by A runs,
\* the Like succeeds without error and leaves the set of Like edges
\* unchanged, but is otherwise processed like a first Like: its commit
\* appends another notification (one match row for each of the two if B->A
\* exists, otherwise one like row for B), and B's score is recomputed before
\* the request is answered 200.
C33_RepeatedLike ==
  [][\A r \in ReqIds :
       /\ (reqs'[r].op = "like" /\ reqs'[r] # reqs[r] /\ reqs'[r].gFwd) =>
            likes' = likes
       /\ (LikeCommits(r) /\ reqs[r].gFwd) =>
            InsertsExactly(IF reqs[r].gRev
                             THEN {Notification(reqs[r].userId, "match", reqs[r].id),
                                   Notification(reqs[r].id, "match", reqs[r].userId)}
                             ELSE {Notification(reqs[r].id, "like", reqs[r].userId)})
       /\ (reqs[r].op = "like" /\ reqs[r].pc = "commit" /\ reqs[r].gFwd) =>
            reqs'[r].pc \in {"commit", "fame"}
       /\ (LikeAnswers(r) /\ reqs[r].gFwd) =>
            /\ reqs'[r].status = 200
            /\ fame_rating' = [fame_rating EXCEPT ![reqs[r].id] = FameRating(reqs[r].id)]]_vars

\* C33 witness: user 1 liked user 2 twice; the second like found the edge,
\* answered 200, the only edge is (1, 2), user 2 has two like notifications
\* and the score of one liker
C33_Witness ==
  \E r \in ReqIds :
    /\ reqs[r].op = "like" /\ reqs[r].pc = "done" /\ reqs[r].status = 200
    /\ reqs[r].userId = 1 /\ reqs[r].id = 2
    /\ reqs[r].gFwd /\ ~ reqs[r].gRev
    /\ likes = {<<1, 2>>}
    /\ CopiesIn(Notification(2, "like", 1), notifications) = 2
    /\ fame_rating[2] = LikeWeight

(***************************************************************************)
(* Unlike without an edge (claim C34), checked under SpecSocial            *)
(***************************************************************************)
\* request r is an unlike whose DELETE found no edge userId -> id
UnlikeOfNothing(r) == reqs[r].op = "unlike" /\ ~ reqs[r].gFwd

\* C34: an Unlike of B by A when no Like edge A->B exists is answered with a
\* not-found error and changes nothing: the request is answered 404 by the
\* step that runs its DELETE, its transaction writes nothing, and in that
\* step no edge is deleted, no notification is created and no score is
\* recomputed.  The same holds for an Unlike answered 404 because a
\* concurrent request removed the edge first.
C34_UnlikeOfNothing ==
  /\ [](\A r \in ReqIds : UnlikeOfNothing(r) =>
          /\ reqs[r].pc = "done" /\ reqs[r].status = 404
          /\ reqs[r].gWrote = {})
  /\ [](\A r \in ReqIds : (reqs[r].op = "unlike" /\ reqs[r].status = 404) =>
          reqs[r].gWrote = {})
  /\ [][\A r \in ReqIds :
          (/\ reqs'[r].op = "unlike"
           /\ ~ reqs'[r].gFwd \/ reqs'[r].status = 404
           /\ reqs'[r] # reqs[r] \/ nreq' # nreq) =>
             UNCHANGED <<storeVars, unliked>>]_vars

\* C34 witness: user 2 likes user 1; the unlike of 2 by 1 was answered 404,
\* the edge (2, 1) and the score of user 1 are in place and no unlike
\* notification exists
C34_Witness ==
  \E r \in ReqIds :
    /\ UnlikeOfNothing(r) /\ reqs[r].status = 404
    /\ reqs[r].userId = 1 /\ reqs[r].id = 2
    /\ likes = {<<2, 1>>}
    /\ fame_rating[1] = LikeWeight /\ fame_rating[2] = 0
    /\ \A n \in BagToSet(notifications) : n.type # "unlike"

(***************************************************************************)
(* Profile views ending with an error (claim C35), checked under           *)
(* SpecVisitFail                                                           *)
(***************************************************************************)
\* C35: a Visit is all-or-nothing: whenever no request is in flight, also
\* after a failure of the notification insert or of the score recompute,
\* every visits row (V, B) has a visit notification of its own addressed to
\* B from V, and the stored score of every visited B is the formula
\* evaluated on the store.
C35_VisitAllOrNothing ==
  Quiescent =>
    \A v \in Peers, b \in Peers :
      CopiesIn(<<v, b>>, visits) > 0 =>
        /\ CopiesIn(Notification(b, "visit", v), notifications)
             >= CopiesIn(<<v, b>>, visits)
        /\ fame_rating[b] = FameRating(b)

(***************************************************************************)
(* Entries of userSockets (claim C36), checked under SpecPresence          *)
(***************************************************************************)
\* C36: whenever userSockets holds an entry for an identity, the entry is
\* the id of a connection that is open and was authenticated as that
\* identity; it is never the id of a closed or rejected connection, for any
\* interleaving of connects and disconnects, several connections of one
\* identity included.
C36_EntriesAreOpen ==
  \A u \in Users : userSockets[u] # None =>
    /\ userSockets[u] \in SocketIds
    /\ sockets[userSockets[u]].state = "open"
    /\ sockets[userSockets[u]].userId = u

\* C36 witness: user 1 has two open connections and the entry of user 1 is
\* the newer one
C36_Witness ==
  /\ sockets[1] = [state |-> "open", userId |-> 1]
  /\ sockets[2] = [state |-> "open", userId |-> 1]
  /\ userSockets[1] = 2

(***************************************************************************)
(* Order of the presence signals (claim C37), checked under SpecSession,   *)
(* where every identity has one connection session                         *)
(***************************************************************************)
\* C37: the presence signals a connection receives about an identity are
\* ordered like that identity's session: no connection holds a user_online
\* naming A after a user_offline naming A, also when A disconnects while the
\* match query of its connect is still in flight.
C37_OnlineBeforeOffline ==
  \A s \in SocketIds : \A k1 \in DOMAIN inbox[s], k2 \in DOMAIN inbox[s] :
    (/\ k1 < k2
     /\ inbox[s][k1].type = "user_offline"
     /\ inbox[s][k2].type = "user_online")
      => inbox[s][k1].userId # inbox[s][k2].userId

(***************************************************************************)
(* Like racing a block (claim C38), checked under SpecSocial               *)
(***************************************************************************)
\* no like and no block request is in flight
NoLikeOrBlockInFlight ==
  \A r \in ReqIds : reqs[r].op \in {"like", "block"} => reqs[r].pc \in {"idle", "done"}

\* C38: whenever no Like or Block request is in flight, no Like edge exists
\* between two identities that have a Block edge in either direction, for
\* every interleaving of a Like by one of them with a Block by either.
C38_NoLikeAcrossBlock ==
  NoLikeOrBlockInFlight =>
    \A a \in Peers, b \in Peers : IsBlocked(a, b) => <<a, b>> \notin likes

(***************************************************************************)
(* Message insert racing a block or unlike (claim C39), checked under      *)
(* SpecChat                                                                *)
(***************************************************************************)
\* C39: no message row from A to B is inserted at a moment when a Block edge
\* exists between A and B or when the pair is not mutually matched, also
\* when a Block or Unlike commits between the authorization reads of the
\* send_message and its message insert.
C39_InsertOnlyWhileAuthorized ==
  [][Len(messages') = Len(messages) + 1 =>
       LET m == messages'[Len(messages')] IN
         /\ ~ IsBlocked(m.sender_id, m.receiver_id)
         /\ IsMutualMatch(m.sender_id, m.receiver_id)]_vars
====
